---- MODULE Spec2Model ----
(***************************************************************************)
(* Paper-trading state machine of the BTCUSDT bot: demo_trader.py (Trade   *)
(* Document, ticks, force close) on top of risk_manager.py (risk policy,   *)
(* daily risk state).                                                      *)
(*                                                                         *)
(* Number representation (Python floats are modelled by exact fixed-point  *)
(* integers):                                                              *)
(*   prices, ATR, stop/TP levels : cents            (1e-2 USD)             *)
(*   position size               : micro-BTC        (1e-6 BTC)             *)
(*   profits, daily loss/profit  : 1e-8 USD / INR   (cents x micro-BTC)    *)
(*   balance, peak_balance       : offset from START_BALANCE, in 1e-8 INR  *)
(*                                 (the absolute value does not fit the    *)
(*                                 integers of the model checker)          *)
(*   multipliers (2.0, 1.5, ...) : tenths; percentages (3.0): tenths       *)
(* round(x, n) is round-half-to-even on the exact decimal value.           *)
(* Timestamps that no code reads back (time, opened_at, closed_at) are     *)
(* left out of the records.                                                *)
(***************************************************************************)
EXTENDS Integers, Sequences, FiniteSets, TLC

\* ------------------------------------------------------------------ bounds
\* length of the runs explored: operations, config posts and clock moves
MaxSteps == 3

\* --------------------------------------------------------- number helpers
\* units of 1e-8 INR (or USD) in one INR (USD)
Scale == 10000 * 10000
\* units of 1e-8 in one hundredth (the grid of round(x, 2))
Cent == 1000 * 1000
\* Python None / absent key, for numeric fields
None == 0 - 999999999
\* absolute 0.0 for peak_balance (offset -START_BALANCE * Scale is out of range)
AbsZero == 0 - 999999998

Max(a, b) == IF a >= b THEN a ELSE b
Min(a, b) == IF a <= b THEN a ELSE b
Abs(x) == IF x < 0 THEN 0 - x ELSE x

\* Python truthiness of an optional number: None and 0 are falsy
Truthy(x) == x # None /\ x # 0

\* round to the nearest multiple of step, ties to the even multiple
RoundHalfEven(x, step) ==
  LET q == x \div step
      r == x % step
  IN  IF 2 * r < step THEN q * step
      ELSE IF 2 * r > step THEN (q + 1) * step
      ELSE IF q % 2 = 0 THEN q * step ELSE (q + 1) * step

\* round(x, 2) of an amount held in 1e-8 units
Round2(x) == RoundHalfEven(x, Cent)

\* ----------------------------------------------------- program constants
START_BALANCE == 10000
COINS_PER_TRADE == 1000
BTC_USDT_RATE == 85

NoTrade == [type |-> "NONE"]
NoFile == [exists |-> FALSE]

\* risk_manager.py DEFAULT_RISK_CONFIG (fields the trading code reads)
DEFAULT_RISK_CONFIG ==
  [ sl_enabled |-> TRUE,
    sl_type |-> "hybrid",
    atr_multiplier |-> 20,
    max_loss_percentage |-> 30,
    trailing_enabled |-> TRUE,
    trailing_atr_multiplier |-> 15,
    tp_enabled |-> TRUE,
    tp_levels |-> << [percentage |-> 50, atr_multiplier |-> 25, name |-> "TP1"],
                     [percentage |-> 30, atr_multiplier |-> 50, name |-> "TP2"],
                     [percentage |-> 20, atr_multiplier |-> 75, name |-> "TP3"] >>,
    sizing_method |-> "percentage",
    sizing_value |-> 50,
    min_position_size |-> 100,
    max_position_size |-> 10000,
    limits_enabled |-> TRUE,
    max_daily_loss |-> 1000,
    max_daily_trades |-> 20,
    max_consecutive_losses |-> 5,
    reset_hour |-> 0,
    max_drawdown_percentage |-> 20,
    min_balance |-> 5000,
    emergency_stop |-> FALSE,
    side_rules_enabled |-> TRUE,
    long_tp_atr_multipliers |-> <<30, 60, 90>>,
    short_tp_atr_multipliers |-> <<20, 40, 60>> ]

\* configurations a POST /risk-config can install
EmergencyConfig == [DEFAULT_RISK_CONFIG EXCEPT !.emergency_stop = TRUE]
TightLimitsConfig ==
  [DEFAULT_RISK_CONFIG EXCEPT !.max_daily_trades = 1, !.reset_hour = 12]
NoStopLossConfig == [DEFAULT_RISK_CONFIG EXCEPT !.sl_enabled = FALSE]
RiskConfigs ==
  {DEFAULT_RISK_CONFIG, EmergencyConfig, TightLimitsConfig, NoStopLossConfig}

\* ------------------------------------------------------------ input sets
Signals == {"Buy", "Sell", "Hold"}
Prices == {10000, 10600}
Atrs == {0, 300}
UtbotStops == {0, 10200}
\* wall clock: (date, hour), advancing
Dates == {0, 1}
Hours == {6, 18}
Clock == [date : Dates, hour : Hours]
Later(a, b) == b.date > a.date \/ (b.date = a.date /\ b.hour > a.hour)

\* ------------------------------------------------ risk_manager.py: state
\* reset_daily_state: all counters zero, peak_balance 0.0, stamped with now
reset_daily_state(now) ==
  [ exists |-> TRUE,
    daily_loss |-> 0,
    daily_profit |-> 0,
    daily_trades |-> 0,
    consecutive_losses |-> 0,
    last_reset |-> now,
    peak_balance |-> AbsZero ]

\* variant of NeedsReset that does not look at the hour of the last reset
NeedsResetPastHour(state, config, now) ==
  \/ now.date > state.last_reset.date
  \/ /\ now.date = state.last_reset.date
     /\ now.hour >= config.reset_hour

\* the reset test of load_risk_state
NeedsReset(state, config, now) ==
  \/ now.date > state.last_reset.date
  \/ /\ now.date = state.last_reset.date
     /\ now.hour >= config.reset_hour
     /\ state.last_reset.hour < config.reset_hour

\* load_risk_state: the state it returns, which is also what the file holds
\* afterwards (reset_daily_state saves what it returns)
load_risk_state(file, config, now) ==
  IF ~file.exists THEN reset_daily_state(now)
  ELSE IF NeedsReset(file, config, now) THEN reset_daily_state(now)
  ELSE file

\* ----------------------------------------------- risk_manager.py: policy
\* sizing_value: tenths of a percent for "percentage", micro-BTC otherwise.
\* The balance is cut to 1e-3 INR before the division by 97000 * 85.
calculate_position_size(balance, config) ==
  LET value == config.sizing_value
      milli == START_BALANCE * 1000 + (balance \div (Scale \div 1000))
      btc_price_inr == 97000 * 85
      raw == IF config.sizing_method = "percentage"
             THEN RoundHalfEven(milli * value, btc_price_inr) \div btc_price_inr
             ELSE value
      below == IF config.sizing_method = "percentage"
               THEN (milli * value) \div btc_price_inr < config.min_position_size
               ELSE value < config.min_position_size
      above == IF config.sizing_method = "percentage"
               THEN (milli * value - 1) \div btc_price_inr >= config.max_position_size
               ELSE value > config.max_position_size
  IN  IF above /\ ~(config.max_position_size < config.min_position_size)
      THEN config.max_position_size
      ELSE IF below \/ config.max_position_size < config.min_position_size
      THEN config.min_position_size
      ELSE raw

\* the three candidate stops, in 1/1000 cent
SlAtr(entry_price, position_type, atr_value, config) ==
  IF position_type = "LONG"
  THEN entry_price * 1000 - atr_value * config.atr_multiplier * 100
  ELSE entry_price * 1000 + atr_value * config.atr_multiplier * 100

SlFixed(entry_price, position_type, config) ==
  IF position_type = "LONG"
  THEN entry_price * (1000 - config.max_loss_percentage)
  ELSE entry_price * (1000 + config.max_loss_percentage)

\* variant of calculate_stop_loss whose hybrid mode ignores the indicator line
calculate_stop_loss_without_line(entry_price, position_type, atr_value, utbot_stop, config) ==
  LET sl_atr == SlAtr(entry_price, position_type, atr_value, config)
      sl_fixed == SlFixed(entry_price, position_type, config)
      sl_candidate == IF position_type = "LONG" THEN Max(sl_atr, sl_fixed)
                      ELSE Min(sl_atr, sl_fixed)
  IN  IF ~config.sl_enabled THEN None
      ELSE RoundHalfEven(sl_candidate, 1000) \div 1000

calculate_stop_loss(entry_price, position_type, atr_value, utbot_stop, config) ==
  LET sl_atr == SlAtr(entry_price, position_type, atr_value, config)
      sl_fixed == SlFixed(entry_price, position_type, config)
      sl_utbot == utbot_stop * 1000
      sl_candidate == IF position_type = "LONG" THEN Max(sl_atr, sl_fixed)
                      ELSE Min(sl_atr, sl_fixed)
      stop_loss ==
        CASE config.sl_type = "hybrid" ->
               IF Truthy(utbot_stop)
               THEN (IF position_type = "LONG" THEN Max(sl_candidate, sl_utbot)
                     ELSE Min(sl_candidate, sl_utbot))
               ELSE sl_candidate
          [] config.sl_type = "atr" -> sl_atr
          [] config.sl_type = "percentage" -> sl_fixed
          [] config.sl_type = "utbot" ->
               IF Truthy(utbot_stop) THEN sl_utbot ELSE sl_fixed
          [] OTHER -> sl_fixed
  IN  IF ~config.sl_enabled THEN None
      ELSE RoundHalfEven(stop_loss, 1000) \div 1000

\* one take-profit price, rounded to cents
TpPrice(entry_price, position_type, atr_value, mult) ==
  LET x == IF position_type = "LONG" THEN entry_price * 10 + atr_value * mult
           ELSE entry_price * 10 - atr_value * mult
  IN  RoundHalfEven(x, 10) \div 10

calculate_take_profit_levels(entry_price, position_type, atr_value, config) ==
  LET multipliers == IF position_type = "LONG"
                     THEN config.long_tp_atr_multipliers
                     ELSE config.short_tp_atr_multipliers
      levels == config.tp_levels
  IN  IF ~config.tp_enabled THEN << >>
      ELSE IF config.side_rules_enabled
      THEN [ i \in 1..Len(multipliers) |->
               [ price |-> TpPrice(entry_price, position_type, atr_value,
                                   multipliers[i]),
                 percentage |-> IF i <= Len(levels) THEN levels[i].percentage
                                ELSE 100 \div Len(multipliers),
                 name |-> IF i <= Len(levels) THEN levels[i].name
                          ELSE "TP" \o ToString(i),
                 hit |-> FALSE ] ]
      ELSE [ i \in 1..Len(levels) |->
               [ price |-> TpPrice(entry_price, position_type, atr_value,
                                   levels[i].atr_multiplier),
                 percentage |-> levels[i].percentage,
                 name |-> levels[i].name,
                 hit |-> FALSE ] ]

\* update_trailing_stop: the new stop, or None for no update
update_trailing_stop(current_price, position_type, stop_loss, atr_value, config) ==
  LET trailing_distance == atr_value * config.trailing_atr_multiplier
      new_stop == IF position_type = "LONG"
                  THEN current_price * 10 - trailing_distance
                  ELSE current_price * 10 + trailing_distance
      tighter == IF position_type = "LONG" THEN new_stop > stop_loss * 10
                 ELSE new_stop < stop_loss * 10
  IN  IF ~config.trailing_enabled THEN None
      ELSE IF tighter THEN RoundHalfEven(new_stop, 10) \div 10
      ELSE None

\* variant of check_daily_limits that lets the trade count reach the cap
check_daily_limits_above_cap(state, config) ==
  IF ~config.limits_enabled THEN "ok"
  ELSE IF state.daily_loss \div Scale >= config.max_daily_loss THEN "daily_loss"
  ELSE IF state.daily_trades > config.max_daily_trades THEN "daily_trades"
  ELSE IF state.consecutive_losses >= config.max_consecutive_losses
  THEN "consecutive_losses"
  ELSE "ok"

\* check_daily_limits: "ok" or the first violated limit
check_daily_limits(state, config) ==
  IF ~config.limits_enabled THEN "ok"
  ELSE IF state.daily_loss \div Scale >= config.max_daily_loss THEN "daily_loss"
  ELSE IF state.daily_trades >= config.max_daily_trades THEN "daily_trades"
  ELSE IF state.consecutive_losses >= config.max_consecutive_losses
  THEN "consecutive_losses"
  ELSE "ok"

\* ((peak - balance) / peak) * 100 >= max_drawdown_percentage, on offsets;
\* d * peak / 100 is taken in two parts to stay within the integers of TLC
DrawdownHit(balance, peak, config) ==
  LET d == config.max_drawdown_percentage
      share == d * (peak \div 100) + (d * (peak % 100) + 99) \div 100
  IN  ((peak - balance - share) \div Scale) >= (d * START_BALANCE) \div 100

\* check_account_protection: [reason, state], the state with the peak updated
check_account_protection(balance, state, config) ==
  IF config.emergency_stop THEN [reason |-> "emergency_stop", state |-> state]
  ELSE IF balance \div Scale < config.min_balance - START_BALANCE
  THEN [reason |-> "min_balance", state |-> state]
  ELSE IF state.peak_balance # AbsZero
          /\ DrawdownHit(balance, state.peak_balance, config)
  THEN [reason |-> "drawdown", state |-> state]
  ELSE IF state.peak_balance = AbsZero \/ balance > state.peak_balance
  THEN [reason |-> "ok", state |-> [state EXCEPT !.peak_balance = balance]]
  ELSE [reason |-> "ok", state |-> state]

\* variant of can_open_trade that runs the account protection check first
can_open_trade_account_first(balance, file, config, now) ==
  LET state == load_risk_state(file, config, now)
      daily == check_daily_limits(state, config)
      account == check_account_protection(balance, state, config)
  IN  IF account.reason # "ok"
      THEN [allowed |-> FALSE, reason |-> account.reason, file |-> state]
      ELSE IF daily # "ok"
      THEN [allowed |-> FALSE, reason |-> daily, file |-> account.state]
      ELSE [allowed |-> TRUE, reason |-> "ok", file |-> account.state]

\* can_open_trade: [allowed, reason, file], file the risk state file afterwards
can_open_trade(balance, file, config, now) ==
  LET state == load_risk_state(file, config, now)
      daily == check_daily_limits(state, config)
      account == check_account_protection(balance, state, config)
  IN  IF daily # "ok"
      THEN [allowed |-> FALSE, reason |-> daily, file |-> state]
      ELSE IF account.reason # "ok"
      THEN [allowed |-> FALSE, reason |-> account.reason, file |-> state]
      ELSE [allowed |-> TRUE, reason |-> "ok", file |-> account.state]

\* variant of record_trade_result that counts a result of zero as a loss
record_trade_result_zero_loses(profit_loss, file, config, now) ==
  LET state == load_risk_state(file, config, now)
  IN  IF profit_loss <= 0
      THEN [state EXCEPT !.daily_trades = @ + 1,
                         !.daily_loss = @ + Abs(profit_loss),
                         !.consecutive_losses = @ + 1]
      ELSE [state EXCEPT !.daily_trades = @ + 1,
                         !.daily_profit = @ + profit_loss,
                         !.consecutive_losses = 0]

\* record_trade_result: the risk state file afterwards
record_trade_result(profit_loss, file, config, now) ==
  LET state == load_risk_state(file, config, now)
  IN  IF profit_loss < 0
      THEN [state EXCEPT !.daily_trades = @ + 1,
                         !.daily_loss = @ + Abs(profit_loss),
                         !.consecutive_losses = @ + 1]
      ELSE [state EXCEPT !.daily_trades = @ + 1,
                         !.daily_profit = @ + profit_loss,
                         !.consecutive_losses = 0]

\* -------------------------------------------------- demo_trader.py: state
VARIABLES
  balance,        \* data["balance"], as an offset from START_BALANCE
  open_trade,     \* data["open_trade"]: NoTrade or the position
  history,        \* data["history"]: closed-trade records
  order_log,      \* data["order_log"]: one entry per tick / force close
  last_signal,    \* data["last_signal"]
  risk_config,    \* risk_config.json
  risk_file,      \* risk_state.json: NoFile or the daily risk state
  now,            \* wall clock (date, hour)
  steps,          \* steps taken so far (bounds the run)
  last            \* what the last operation was given and what it did

vars == << balance, open_trade, history, order_log, last_signal, risk_config,
           risk_file, now, steps, last >>

\* variant of check_tp_sl_hits that looks at the take-profit first
check_tp_before_sl(trade, current_price) ==
  IF trade = NoTrade THEN "NONE"
  ELSE IF /\ Truthy(trade.tp1_price)
          /\ \/ trade.type = "LONG" /\ current_price >= trade.tp1_price
             \/ trade.type = "SHORT" /\ current_price <= trade.tp1_price
  THEN "TP1"
  ELSE IF /\ Truthy(trade.stop_loss)
          /\ \/ trade.type = "LONG" /\ current_price <= trade.stop_loss
             \/ trade.type = "SHORT" /\ current_price >= trade.stop_loss
  THEN "SL"
  ELSE "NONE"

\* check_tp_sl_hits: "SL", "TP1" or "NONE"; the stop-loss is looked at first
check_tp_sl_hits(trade, current_price) ==
  IF trade = NoTrade THEN "NONE"
  ELSE IF /\ Truthy(trade.stop_loss)
          /\ \/ trade.type = "LONG" /\ current_price <= trade.stop_loss
             \/ trade.type = "SHORT" /\ current_price >= trade.stop_loss
  THEN "SL"
  ELSE IF /\ Truthy(trade.tp1_price)
          /\ \/ trade.type = "LONG" /\ current_price >= trade.tp1_price
             \/ trade.type = "SHORT" /\ current_price <= trade.tp1_price
  THEN "TP1"
  ELSE "NONE"

\* profit in 1e-8 USD of closing the position at current_price
ProfitUsdt(trade, current_price) ==
  IF trade.type = "LONG"
  THEN (current_price - trade.entry_price) * trade.amount
  ELSE (trade.entry_price - current_price) * trade.amount

\* the closed-trade record; each amount is rounded on its own
TradeRecord(trade, current_price, reason, balance_before, balance_after) ==
  [ type |-> trade.type,
    entry_price |-> trade.entry_price,
    exit_price |-> current_price,
    amount |-> trade.amount,
    profit_usdt |-> Round2(ProfitUsdt(trade, current_price)),
    profit_inr |-> Round2(ProfitUsdt(trade, current_price) * BTC_USDT_RATE),
    balance_before |-> Round2(balance_before),
    balance_after |-> Round2(balance_after),
    exit_reason |-> reason,
    partial |-> FALSE ]

\* variant of ClosedDocument that drops the position without a history record
ClosedDocumentUnrecorded(d, rec, profit_inr, config, clock) ==
  [ balance |-> d.balance + profit_inr,
    history |-> d.history,
    file |-> record_trade_result(profit_inr, d.file, config, clock),
    record |-> rec ]

\* close_full_position, given the record it builds: the in-memory document
\* d = [balance, history, file] and the risk state file afterwards
ClosedDocument(d, rec, profit_inr, config, clock) ==
  [ balance |-> d.balance + profit_inr,
    history |-> Append(d.history, rec),
    file |-> record_trade_result(profit_inr, d.file, config, clock),
    record |-> rec ]

\* close_full_position(data, open_trade, current_price, reason)
close_full_position(d, trade, current_price, reason, config, clock) ==
  ClosedDocument(d,
    TradeRecord(trade, current_price, reason, d.balance,
                d.balance + ProfitUsdt(trade, current_price) * BTC_USDT_RATE),
    ProfitUsdt(trade, current_price) * BTC_USDT_RATE, config, clock)

\* variant of PositionRecord that opens the position with its stop already
\* marked as moved to breakeven
PositionRecordAtBreakeven(position_type, price, atr_value, position_size, stop_loss_price, tp_levels) ==
  [ type |-> position_type,
    entry_price |-> price,
    amount |-> position_size,
    original_amount |-> position_size,
    stop_loss |-> stop_loss_price,
    tp1_price |-> IF tp_levels # << >> THEN tp_levels[1].price ELSE None,
    tp_levels |-> IF tp_levels # << >> THEN << tp_levels[1] >> ELSE << >>,
    strategy |-> IF position_type = "LONG" THEN "UT Bot #2 (KV=2, ATR=300)"
                 ELSE "UT Bot #1 (KV=2, ATR=1)",
    opened_at |-> now,
    atr_at_entry |-> atr_value,
    breakeven_moved |-> TRUE ]

\* the open_trade dict of lines 212-224 / 257-269
PositionRecord(position_type, price, atr_value, position_size, stop_loss_price, tp_levels) ==
  [ type |-> position_type,
    entry_price |-> price,
    amount |-> position_size,
    original_amount |-> position_size,
    stop_loss |-> stop_loss_price,
    tp1_price |-> IF tp_levels # << >> THEN tp_levels[1].price ELSE None,
    tp_levels |-> IF tp_levels # << >> THEN << tp_levels[1] >> ELSE << >>,
    strategy |-> IF position_type = "LONG" THEN "UT Bot #2 (KV=2, ATR=300)"
                 ELSE "UT Bot #1 (KV=2, ATR=1)",
    opened_at |-> now,
    atr_at_entry |-> atr_value,
    breakeven_moved |-> FALSE ]

\* the position a Buy (LONG) or Sell (SHORT) tick builds (lines 205-224)
NewPosition(position_type, price, atr_value, utbot_stop, bal, config) ==
  PositionRecord(position_type, price, atr_value,
    calculate_position_size(bal, config),
    calculate_stop_loss(price, position_type, atr_value, utbot_stop, config),
    calculate_take_profit_levels(price, position_type, atr_value, config))

\* log_entry as update_demo_trade creates it (lines 144-149)
NewLogEntry(signal, price) ==
  [ side |-> signal, price |-> price, quantity |-> COINS_PER_TRADE,
    action |-> "NONE", pl_inr |-> None, stop_loss |-> None, tp1 |-> None ]

NoRecord == [type |-> "NONE"]

\* the in-memory state of update_demo_trade after load_trades (lines 136-149)
TickStart(signal, price) ==
  [ balance |-> balance, history |-> history, file |-> risk_file,
    open |-> open_trade, log |-> NewLogEntry(signal, price), msg |-> FALSE,
    closed |-> NoRecord, last_signal |-> last_signal, events |-> << >>,
    admission |-> "not_run", failed |-> FALSE ]

\* the in-memory state after a close c made by the exit stage
AfterExitClose(m, c, action, event) ==
  [m EXCEPT !.balance = c.balance, !.history = c.history, !.file = c.file,
            !.open = NoTrade, !.msg = TRUE, !.closed = c.record,
            !.log = [@ EXCEPT !.action = action, !.pl_inr = c.record.profit_inr],
            !.events = Append(@, event)]

\* variant of ExitClose that fills a stop-loss at the stop price, not at the
\* tick price
ExitCloseAtStopPrice(m, price, reason, action, event, config, clock) ==
  AfterExitClose(m,
    close_full_position(m, m.open,
                        IF event = "SL" THEN m.open.stop_loss ELSE price,
                        reason, config, clock),
    action, event)

\* a stop-loss or TP1 close inside the exit stage (lines 154-166)
ExitClose(m, price, reason, action, event, config, clock) ==
  AfterExitClose(m, close_full_position(m, m.open, price, reason, config, clock),
                 action, event)

\* lines 177-180: a truthy new_stop is written onto the position
ApplyTrailing(m, new_stop) ==
  IF Truthy(new_stop)
  THEN [m EXCEPT !.open = [@ EXCEPT !.stop_loss = new_stop],
                 !.msg = TRUE,
                 !.log = [@ EXCEPT !.action = "TRAILING_STOP_UPDATE"],
                 !.events = Append(@, "TRAIL")]
  ELSE m

\* the trailing-stop branch (lines 168-180); comparing with a stop_loss of
\* None raises
TrailingStage(m, price, atr_value, config) ==
  IF m.open # NoTrade /\ m.open.breakeven_moved /\ config.trailing_enabled
  THEN IF m.open.stop_loss = None
       THEN [m EXCEPT !.failed = TRUE]
       ELSE ApplyTrailing(m, update_trailing_stop(price, m.open.type,
                                 m.open.stop_loss, atr_value, config))
  ELSE m

\* the branch of lines 154-180 that hit_type selects
ExitBranch(m, hit_type, price, atr_value, config, clock) ==
  CASE hit_type = "SL" ->
         ExitClose(m, price, "Stop-Loss Hit", "STOP_LOSS", "SL", config, clock)
    [] hit_type = "TP1" ->
         ExitClose(m, price, "TP1 Hit - Full Exit", "TP1_FULL_EXIT", "TP1",
                   config, clock)
    [] OTHER -> TrailingStage(m, price, atr_value, config)

\* lines 151-180: exits are evaluated against price before the signal
ExitStage(m, price, atr_value, config, clock) ==
  IF m.open = NoTrade THEN m
  ELSE ExitBranch(m, check_tp_sl_hits(m.open, price), price, atr_value,
                  config, clock)

\* the in-memory state after the opposite-signal close c (lines 199-203)
AfterOppositeClose(m, c, closed_type) ==
  [m EXCEPT !.balance = c.balance, !.history = c.history, !.file = c.file,
            !.open = NoTrade, !.msg = TRUE, !.closed = c.record,
            !.log = [@ EXCEPT !.action = "CLOSE_" \o closed_type],
            !.events = Append(@, "CLOSE_OPPOSITE")]

\* variant of CloseOpposite that leaves the other side's position alone, so
\* that the new position overwrites it
CloseOppositeSkipped(m, position_type, price, config, clock) == m

\* lines 199-203 / 244-248: an open position of the other side is closed first
CloseOpposite(m, position_type, price, config, clock) ==
  IF m.open # NoTrade /\ m.open.type # position_type
  THEN AfterOppositeClose(m,
         close_full_position(m, m.open, price, "Opposite Signal", config, clock),
         m.open.type)
  ELSE m

\* variant of StorePosition that charges the cost of the position to the
\* balance when it opens
StorePositionCharged(m, pos, signal) ==
  IF pos.stop_loss = None \/ pos.tp1_price = None
  THEN [m EXCEPT !.failed = TRUE]
  ELSE [m EXCEPT !.open = pos, !.msg = TRUE,
                 !.balance = @ - pos.entry_price * pos.amount * BTC_USDT_RATE,
                 !.log = [@ EXCEPT !.action = "OPEN_" \o pos.type,
                                   !.stop_loss = pos.stop_loss,
                                   !.tp1 = pos.tp1_price],
                 !.last_signal = signal,
                 !.events = Append(@, "OPEN")]

\* lines 212-230 / 257-275: the new position is stored and logged; formatting
\* a stop_loss or tp1 of None with :.2f raises before anything is saved
StorePosition(m, pos, signal) ==
  IF pos.stop_loss = None \/ pos.tp1_price = None
  THEN [m EXCEPT !.failed = TRUE]
  ELSE [m EXCEPT !.open = pos, !.msg = TRUE,
                 !.log = [@ EXCEPT !.action = "OPEN_" \o pos.type,
                                   !.stop_loss = pos.stop_loss,
                                   !.tp1 = pos.tp1_price],
                 !.last_signal = signal,
                 !.events = Append(@, "OPEN")]

\* lines 205-230 / 250-275, on the state left by CloseOpposite
OpenPosition(m, position_type, signal, price, atr_value, utbot_stop, config) ==
  StorePosition(m, NewPosition(position_type, price, atr_value, utbot_stop,
                               m.balance, config), signal)

\* lines 198-230 / 243-275: close the opposite position, then open
OpenStage(m, position_type, signal, price, atr_value, utbot_stop, config, clock) ==
  OpenPosition(CloseOpposite(m, position_type, price, config, clock),
               position_type, signal, price, atr_value, utbot_stop, config)

\* lines 190-192 / 235-237: the signal is refused, nothing else changes
Blocked(m, trade_check) ==
  [m EXCEPT !.file = trade_check.file, !.admission = trade_check.reason,
            !.msg = TRUE, !.log = [@ EXCEPT !.action = "BLOCKED"],
            !.events = Append(@, "BLOCKED")]

\* variant of Ignored that moves the entry of the open position to the tick
\* price
IgnoredAtTickPrice(m, trade_check) ==
  [m EXCEPT !.file = trade_check.file, !.admission = trade_check.reason,
            !.msg = TRUE, !.log = [@ EXCEPT !.action = "IGNORED"],
            !.events = Append(@, "IGNORED"),
            !.open = [@ EXCEPT !.entry_price = m.log.price]]

\* lines 194-196 / 239-241: a signal for the side already open is ignored
Ignored(m, trade_check) ==
  [m EXCEPT !.file = trade_check.file, !.admission = trade_check.reason,
            !.msg = TRUE, !.log = [@ EXCEPT !.action = "IGNORED"],
            !.events = Append(@, "IGNORED")]

\* variant of AfterAdmission that does not look at trade_check["allowed"]
AfterAdmissionUnchecked(m, trade_check, position_type, signal, price, atr_value, utbot_stop, config, clock) ==
  IF m.open # NoTrade /\ m.open.type = position_type
  THEN Ignored(m, trade_check)
  ELSE OpenStage([m EXCEPT !.file = trade_check.file,
                           !.admission = trade_check.reason],
                 position_type, signal, price, atr_value, utbot_stop,
                 config, clock)

\* variant of AfterAdmission that closes the other side's position although
\* the signal was refused
AfterAdmissionClosesAnyway(m, trade_check, position_type, signal, price, atr_value, utbot_stop, config, clock) ==
  IF ~trade_check.allowed
  THEN CloseOpposite(Blocked(m, trade_check), position_type, price, config,
                     clock)
  ELSE IF m.open # NoTrade /\ m.open.type = position_type
  THEN Ignored(m, trade_check)
  ELSE OpenStage([m EXCEPT !.file = trade_check.file,
                           !.admission = trade_check.reason],
                 position_type, signal, price, atr_value, utbot_stop,
                 config, clock)

\* variant of AfterAdmission without the repeated-signal test
AfterAdmissionNoRepeatTest(m, trade_check, position_type, signal, price, atr_value, utbot_stop, config, clock) ==
  IF ~trade_check.allowed
  THEN Blocked(m, trade_check)
  ELSE OpenStage([m EXCEPT !.file = trade_check.file,
                           !.admission = trade_check.reason],
                 position_type, signal, price, atr_value, utbot_stop,
                 config, clock)

\* lines 190-230 / 235-275, given the result of can_open_trade
AfterAdmission(m, trade_check, position_type, signal, price, atr_value, utbot_stop, config, clock) ==
  IF ~trade_check.allowed
  THEN Blocked(m, trade_check)
  ELSE IF m.open # NoTrade /\ m.open.type = position_type
  THEN Ignored(m, trade_check)
  ELSE OpenStage([m EXCEPT !.file = trade_check.file,
                           !.admission = trade_check.reason],
                 position_type, signal, price, atr_value, utbot_stop,
                 config, clock)

\* lines 187-230 / 232-275: a Buy or Sell signal
TradeSignalStage(m, signal, price, atr_value, utbot_stop, config, clock) ==
  AfterAdmission(m, can_open_trade(m.balance, m.file, config, clock),
                 IF signal = "Buy" THEN "LONG" ELSE "SHORT",
                 signal, price, atr_value, utbot_stop, config, clock)

\* lines 182-275: the signal is applied after the exits
SignalStage(m, signal, price, atr_value, utbot_stop, config, clock) ==
  IF m.failed THEN m
  ELSE CASE signal = "Hold" ->
              IF ~m.msg
              THEN [m EXCEPT !.msg = TRUE, !.log = [@ EXCEPT !.action = "HOLD"],
                             !.events = Append(@, "HOLD")]
              ELSE m
         [] signal \in {"Buy", "Sell"} ->
              TradeSignalStage(m, signal, price, atr_value, utbot_stop,
                               config, clock)
         [] OTHER -> m

\* update_demo_trade up to (not including) the final append and save
TickMemory(signal, price, atr_value, utbot_stop) ==
  SignalStage(ExitStage(TickStart(signal, price), price, atr_value,
                        risk_config, now),
              signal, price, atr_value, utbot_stop, risk_config, now)

\* what an operation leaves in `last`
LastOp(op, signal, price, admission, events) ==
  [ op |-> op, signal |-> signal, price |-> price,
    pre_open |-> open_trade, pre_balance |-> balance,
    pre_history |-> Len(history), pre_log |-> Len(order_log),
    admission |-> admission, events |-> events,
    prev_op |-> last.op, prev_signal |-> last.signal,
    prev_events |-> last.events ]

Init ==
  /\ balance = 0
  /\ open_trade = NoTrade
  /\ history = << >>
  /\ order_log = << >>
  /\ last_signal = "None"
  /\ risk_config \in RiskConfigs
  /\ risk_file = NoFile
  /\ now = [date |-> 0, hour |-> 6]
  /\ steps = 0
  /\ last = [ op |-> "init", signal |-> "None", price |-> 0,
              pre_open |-> NoTrade, pre_balance |-> 0, pre_history |-> 0,
              pre_log |-> 0, admission |-> "not_run", events |-> << >>,
              prev_op |-> "init", prev_signal |-> "None",
              prev_events |-> << >> ]

\* variant of FinishTick that writes no log entry for a tick that ended HOLD
FinishTickQuietHold(m, signal, price) ==
  /\ risk_file' = m.file
  /\ IF m.failed
     THEN UNCHANGED << balance, open_trade, history, order_log, last_signal >>
     ELSE /\ balance' = m.balance
          /\ open_trade' = m.open
          /\ history' = m.history
          /\ order_log' = IF m.log.action = "HOLD" THEN order_log
                          ELSE Append(order_log, m.log)
          /\ last_signal' = m.last_signal
  /\ last' = LastOp(IF m.failed THEN "tick_failed" ELSE "tick", signal, price,
                    m.admission, m.events)

\* lines 277-279: the log entry is appended and the document saved; a call
\* that raised saves nothing (the risk state file is written by the calls made
\* before the exception)
FinishTick(m, signal, price) ==
  /\ risk_file' = m.file
  /\ IF m.failed
     THEN UNCHANGED << balance, open_trade, history, order_log, last_signal >>
     ELSE /\ balance' = m.balance
          /\ open_trade' = m.open
          /\ history' = m.history
          /\ order_log' = Append(order_log, m.log)
          /\ last_signal' = m.last_signal
  /\ last' = LastOp(IF m.failed THEN "tick_failed" ELSE "tick", signal, price,
                    m.admission, m.events)

\* update_demo_trade(signal, price, atr_value, utbot_stop)
update_demo_trade(signal, price, atr_value, utbot_stop) ==
  /\ steps < MaxSteps
  /\ steps' = steps + 1
  /\ FinishTick(TickMemory(signal, price, atr_value, utbot_stop), signal, price)
  /\ UNCHANGED << risk_config, now >>

\* variant of FinishForceClose that saves the close without a log entry
FinishForceCloseUnlogged(c, current_price) ==
  /\ balance' = c.balance
  /\ history' = c.history
  /\ risk_file' = c.file
  /\ open_trade' = NoTrade
  /\ order_log' = order_log
  /\ last' = LastOp("force_close", "None", current_price, "not_run",
                    << "FORCE_CLOSE" >>)

\* lines 57-73 of force_close_position, c the result of close_full_position
FinishForceClose(c, current_price) ==
  /\ balance' = c.balance
  /\ history' = c.history
  /\ risk_file' = c.file
  /\ open_trade' = NoTrade
  /\ order_log' = Append(order_log,
         [ side |-> "CLOSE", price |-> current_price,
           quantity |-> open_trade.amount, action |-> "FORCE_CLOSE",
           pl_inr |-> c.record.profit_inr, stop_loss |-> None, tp1 |-> None ])
  /\ last' = LastOp("force_close", "None", current_price, "not_run",
                    << "FORCE_CLOSE" >>)

\* force_close_position(current_price, reason)
force_close_position(current_price, reason) ==
  /\ steps < MaxSteps
  /\ steps' = steps + 1
  /\ IF open_trade = NoTrade
     THEN /\ UNCHANGED << balance, open_trade, history, order_log, risk_file >>
          /\ last' = LastOp("force_close_none", "None", current_price,
                            "not_run", << >>)
     ELSE FinishForceClose(
            close_full_position([balance |-> balance, history |-> history,
                                 file |-> risk_file],
                                open_trade, current_price, reason,
                                risk_config, now),
            current_price)
  /\ UNCHANGED << last_signal, risk_config, now >>

\* POST /risk-config: save_risk_config(new_config)
save_risk_config(new_config) ==
  /\ steps < MaxSteps
  /\ steps' = steps + 1
  /\ new_config # risk_config
  /\ risk_config' = new_config
  /\ last' = LastOp("config", "None", 0, "not_run", << >>)
  /\ UNCHANGED << balance, open_trade, history, order_log, last_signal,
                  risk_file, now >>

\* the wall clock moves on between requests
AdvanceClock(t) ==
  /\ steps < MaxSteps
  /\ steps' = steps + 1
  /\ Later(now, t)
  /\ now' = t
  /\ last' = LastOp("clock", "None", 0, "not_run", << >>)
  /\ UNCHANGED << balance, open_trade, history, order_log, last_signal,
                  risk_config, risk_file >>

\* get_utbot_signal: what the indicator hands to the /signal route, the
\* empty-window result included
NoData == [signal |-> "No Data", price |-> 0, atr |-> 0, utbot_stop |-> 0]
IndicatorResults ==
  [signal : Signals, price : Prices, atr : Atrs, utbot_stop : UtbotStops]
    \cup {NoData}

\* variant of the /signal route without the test of line 100
signal_route_unguarded(signal_generated, price, atr, utbot_stop) ==
  update_demo_trade(signal_generated, price, atr, utbot_stop)

\* GET /signal (bot.py lines 93-138, trading allowed): an empty-window result
\* is answered with an error before the state machine is called
signal_route(signal_generated, price, atr, utbot_stop) ==
  IF signal_generated = "No Data" \/ price = 0
  THEN /\ steps < MaxSteps
       /\ steps' = steps + 1
       /\ last' = LastOp("no_data", signal_generated, price, "not_run", << >>)
       /\ UNCHANGED << balance, open_trade, history, order_log, last_signal,
                       risk_config, risk_file, now >>
  ELSE update_demo_trade(signal_generated, price, atr, utbot_stop)

Tick ==
  \E r \in IndicatorResults :
     signal_route(r.signal, r.price, r.atr, r.utbot_stop)

ForceClose ==
  \E price \in Prices : force_close_position(price, "Force Stop")

UpdateRiskConfig == \E c \in RiskConfigs : save_risk_config(c)

ClockStep == \E t \in Clock : AdvanceClock(t)

Next == Tick \/ ForceClose \/ UpdateRiskConfig \/ ClockStep

Spec == Init /\ [][Next]_vars

\* ============================================================== claims
\* the last operation was a completed update_demo_trade call
TickDone == last.op = "tick"
\* the last operation was an update_demo_trade call, completed or raised
TickRan == last.op \in {"tick", "tick_failed"}
FirstEvent == IF last.events = << >> THEN "NONE" ELSE last.events[1]
FinalEvent == IF last.events = << >> THEN "NONE"
              ELSE last.events[Len(last.events)]
ExitEvents == {"SL", "TP1"}
CloseEvents == {"SL", "TP1", "CLOSE_OPPOSITE", "FORCE_CLOSE"}
ClosedSomething == \E i \in DOMAIN last.events : last.events[i] \in CloseEvents
SignalSide == IF last.signal = "Buy" THEN "LONG" ELSE "SHORT"
Denied == last.admission \notin {"ok", "not_run"}
HistoryKept == Len(history) = last.pre_history
HasEvent(e) == \E i \in DOMAIN last.events : last.events[i] = e
WasOpen == last.pre_open # NoTrade
\* the exit conditions as the specification words them, on the position that
\* was open before the tick and the tick price
StopLossCond ==
  /\ WasOpen /\ last.pre_open.stop_loss # None
  /\ \/ last.pre_open.type = "LONG" /\ last.price <= last.pre_open.stop_loss
     \/ last.pre_open.type = "SHORT" /\ last.price >= last.pre_open.stop_loss
TakeProfitCond ==
  /\ WasOpen /\ last.pre_open.tp1_price # None
  /\ \/ last.pre_open.type = "LONG" /\ last.price >= last.pre_open.tp1_price
     \/ last.pre_open.type = "SHORT" /\ last.price <= last.pre_open.tp1_price
LastRecord == history[Len(history)]
LastLog == order_log[Len(order_log)]
GrewByOne == Len(history) = last.pre_history + 1
\* the newest history record closes the position that was open before
ClosesPrevious ==
  /\ GrewByOne
  /\ LastRecord.type = last.pre_open.type
  /\ LastRecord.entry_price = last.pre_open.entry_price
  /\ LastRecord.amount = last.pre_open.amount
  /\ LastRecord.exit_price = last.price
\* profit in 1e-8 USD of closing the previously open position at the tick price
ExpectedProfit ==
  IF last.pre_open.type = "LONG"
  THEN (last.price - last.pre_open.entry_price) * last.pre_open.amount
  ELSE (last.pre_open.entry_price - last.price) * last.pre_open.amount

\* C1: the persisted open_trade is none or one LONG/SHORT position, and a tick
\* that opens a position while another was open has first closed that one:
\* history grew by exactly one record, the record of the old position.
C1_AtMostOneOpen ==
  /\ open_trade = NoTrade \/ open_trade.type \in {"LONG", "SHORT"}
  /\ (TickDone /\ HasEvent("OPEN") /\ WasOpen) =>
        /\ ClosesPrevious
        /\ FirstEvent \in {"SL", "TP1", "CLOSE_OPPOSITE"}
        /\ FinalEvent = "OPEN"
\* C1 witness: an opposite-signal tick replaced an open position
C1_Witness ==
  /\ TickDone /\ HasEvent("OPEN") /\ WasOpen
  /\ last.pre_open.type # open_trade.type

\* C2: every completed tick appends exactly one entry to order_log, whatever
\* the signal and the outcome, and no step removes or rewrites an entry.
C2_OneLogEntryPerTick ==
  [][ /\ Len(order_log') >= Len(order_log)
      /\ SubSeq(order_log', 1, Len(order_log)) = order_log
      /\ last'.op = "tick" =>
           /\ Len(order_log') = Len(order_log) + 1
           /\ order_log'[Len(order_log')].side = last'.signal
           /\ order_log'[Len(order_log')].price = last'.price ]_vars
\* C2 witness: a tick that ended Blocked after earlier entries were logged
C2_Witness ==
  /\ TickDone /\ Len(order_log) >= 2 /\ LastLog.action = "BLOCKED"

\* C3: with a position open, the exits are decided on the tick price before
\* the signal acts; the stop-loss wins over TP1 when both conditions hold and
\* the close is recorded with reason Stop-Loss Hit; at most one of stop-loss
\* close, TP1 close, trailing update happens in a tick.
C3_ExitsFirstStopLossWins ==
  (TickRan /\ WasOpen) =>
     /\ StopLossCond => FirstEvent = "SL"
     /\ (TakeProfitCond /\ ~StopLossCond) => FirstEvent = "TP1"
     /\ Cardinality({ i \in DOMAIN last.events :
                        last.events[i] \in {"SL", "TP1", "TRAIL"} }) <= 1
     /\ \A i \in DOMAIN last.events :
          last.events[i] \in {"SL", "TP1", "TRAIL"} => i = 1
     /\ (TickDone /\ (StopLossCond \/ TakeProfitCond)) =>
          /\ Len(history) > last.pre_history
          /\ history[last.pre_history + 1].exit_reason =
                (IF StopLossCond THEN "Stop-Loss Hit" ELSE "TP1 Hit - Full Exit")
          /\ history[last.pre_history + 1].exit_price = last.price
          /\ history[last.pre_history + 1].entry_price =
                last.pre_open.entry_price
\* C3 witness: both conditions held at the tick price and the signal acted too
C3_Witness ==
  /\ TickDone /\ StopLossCond /\ TakeProfitCond
  /\ last.signal # "Hold" /\ Len(last.events) = 2

\* C4: a Hold tick at or beyond the stop of the open position closes it in
\* full at the tick price: profit (price - entry) * size (reversed for Short),
\* balance moved by profit * 85, nothing open afterwards, log tagged STOP_LOSS.
C4_StopLossOnHold ==
  (TickDone /\ last.signal = "Hold" /\ StopLossCond) =>
     /\ open_trade = NoTrade
     /\ ClosesPrevious
     /\ LastRecord.exit_reason = "Stop-Loss Hit"
     /\ LastRecord.profit_usdt = Round2(ExpectedProfit)
     /\ balance = last.pre_balance + ExpectedProfit * BTC_USDT_RATE
     /\ LastLog.action = "STOP_LOSS"
     /\ LastLog.pl_inr = Round2(ExpectedProfit * BTC_USDT_RATE)
\* C4 witness: a Long stopped out on Hold at a price strictly below its stop
C4_Witness ==
  /\ TickDone /\ last.signal = "Hold" /\ StopLossCond
  /\ last.pre_open.type = "LONG" /\ last.price < last.pre_open.stop_loss
  /\ balance < last.pre_balance

\* C5: every record of history adds up on its recorded values: balance_after
\* is balance_before + profit_inr, and profit_inr is profit_usdt * 85.
C5_RecordsAddUp ==
  \A i \in DOMAIN history :
     /\ history[i].balance_after =
          history[i].balance_before + history[i].profit_inr
     /\ history[i].profit_inr = history[i].profit_usdt * BTC_USDT_RATE

C7_OpensOnlyWhenAdmitted ==
  /\ (TickDone /\ HasEvent("OPEN")) =>
        /\ last.signal \in {"Buy", "Sell"}
        /\ last.admission = "ok"
        /\ FinalEvent = "OPEN"
        /\ WasOpen => (ClosesPrevious /\ FirstEvent \in CloseEvents)
        /\ open_trade # NoTrade
        /\ open_trade.type = SignalSide
        /\ open_trade.entry_price = last.price
  /\ ~(TickDone /\ HasEvent("OPEN")) =>
        open_trade = NoTrade \/ open_trade = last.pre_open
  /\ (TickRan /\ last.signal = "Hold") => ~HasEvent("OPEN")
\* C7 witness: an exit closed the old position and the signal opened a new one
C7_Witness ==
  /\ TickDone /\ WasOpen /\ FirstEvent \in ExitEvents /\ FinalEvent = "OPEN"
  /\ open_trade.type = SignalSide

\* C8 as stated: a Buy or Sell tick that can_open_trade denies is logged
\* BLOCKED and leaves open position, balance and history as they were.
C8_BlockedChangesNothing ==
  (TickDone /\ last.signal \in {"Buy", "Sell"} /\ Denied) =>
     /\ LastLog.action = "BLOCKED"
     /\ open_trade = last.pre_open
     /\ balance = last.pre_balance
     /\ HistoryKept
\* C8 amended: a denied Buy or Sell tick is logged BLOCKED and its signal step
\* changes nothing: when no exit level is hit, open position, balance and
\* history are as before (an opposite-side position is not closed); when the
\* stop-loss or TP1 is hit, that exit close, made before the admission check,
\* is the tick's only change.
C8_BlockedSignalStepChangesNothing ==
  (TickDone /\ last.signal \in {"Buy", "Sell"} /\ Denied) =>
     /\ LastLog.action = "BLOCKED"
     /\ ~HasEvent("OPEN") /\ ~HasEvent("CLOSE_OPPOSITE")
     /\ IF StopLossCond \/ TakeProfitCond
        THEN /\ open_trade = NoTrade
             /\ ClosesPrevious
             /\ LastRecord.exit_reason =
                   (IF StopLossCond THEN "Stop-Loss Hit"
                    ELSE "TP1 Hit - Full Exit")
             /\ balance = last.pre_balance + ExpectedProfit * BTC_USDT_RATE
        ELSE /\ open_trade = last.pre_open
             /\ balance = last.pre_balance
             /\ HistoryKept
\* C8 witness: a denied tick left the opposite-side position open
C8_Witness ==
  /\ TickDone /\ last.signal \in {"Buy", "Sell"} /\ Denied
  /\ WasOpen /\ last.pre_open.type # SignalSide
  /\ open_trade = last.pre_open

\* the tick before the last one opened a position on the same signal
FollowsOpeningTick ==
  /\ last.prev_op = "tick" /\ last.prev_signal = last.signal
  /\ \E i \in DOMAIN last.prev_events : last.prev_events[i] = "OPEN"
\* C9 as stated: after a Buy tick opened a Long, a following Buy tick in which
\* no exit level is hit leaves position, balance and history unchanged and
\* logs IGNORED (Sell and Short alike).
C9_DuplicateIgnored ==
  (TickDone /\ last.signal \in {"Buy", "Sell"} /\ FollowsOpeningTick
     /\ ~StopLossCond /\ ~TakeProfitCond) =>
     /\ open_trade = last.pre_open
     /\ balance = last.pre_balance
     /\ HistoryKept
     /\ LastLog.action = "IGNORED"
\* C9 amended: a Buy tick while a Long is open (Sell while Short) in which no
\* exit level is hit leaves position, balance and history unchanged; it logs
\* IGNORED when can_open_trade allows in that tick and BLOCKED when it denies.
C9_DuplicateIgnoredOrBlocked ==
  (TickDone /\ last.signal \in {"Buy", "Sell"} /\ WasOpen
     /\ last.pre_open.type = SignalSide
     /\ ~StopLossCond /\ ~TakeProfitCond) =>
     /\ open_trade = last.pre_open
     /\ balance = last.pre_balance
     /\ HistoryKept
     /\ LastLog.action = (IF Denied THEN "BLOCKED" ELSE "IGNORED")
     /\ last.admission # "not_run"
\* C9 witness: the tick right after the opening one repeated its signal and
\* was logged IGNORED
C9_Witness ==
  /\ TickDone /\ last.signal \in {"Buy", "Sell"} /\ FollowsOpeningTick
  /\ ~StopLossCond /\ ~TakeProfitCond
  /\ LastLog.action = "IGNORED" /\ open_trade = last.pre_open

\* C10: with a position open, no exit level hit and admission allowed, a tick
\* with the opposite signal at price P closes the position at P, profit
\* (P - entry) * size (reversed for Short), reason Opposite Signal, and opens
\* the other side at entry price P in the same tick.
C10_OppositeSignalFlips ==
  (TickRan /\ last.signal \in {"Buy", "Sell"} /\ WasOpen
     /\ last.pre_open.type # SignalSide
     /\ ~StopLossCond /\ ~TakeProfitCond /\ last.admission = "ok") =>
     /\ ClosesPrevious
     /\ LastRecord.exit_reason = "Opposite Signal"
     /\ LastRecord.profit_usdt = Round2(ExpectedProfit)
     /\ balance = last.pre_balance + ExpectedProfit * BTC_USDT_RATE
     /\ open_trade # NoTrade
     /\ open_trade.type = SignalSide
     /\ open_trade.entry_price = last.price

\* C11: the indicator's empty-window result (No Data, price 0, atr 0, stop
\* line 0) arriving at the /signal route opens nothing and closes nothing,
\* whatever was open: position, balance and history stay as they were.
C11_NoDataChangesNothing ==
  [][ last'.signal = "No Data" =>
        /\ last'.price = 0
        /\ UNCHANGED << balance, open_trade, history >> ]_vars
\* C11 witness: the empty-window result arrived while a Long with a stop-loss
\* above 0 was open, and the Long is still open
C11_Witness ==
  /\ last.signal = "No Data" /\ WasOpen
  /\ last.pre_open.type = "LONG" /\ last.pre_open.stop_loss > last.price
  /\ open_trade = last.pre_open

\* C12: force_close_position closes whatever is open at the given price, with
\* no look at signal or admission: one history record with the given reason,
\* one log entry tagged FORCE_CLOSE carrying the realized profit, nothing open
\* afterwards; with nothing open it leaves balance, history and order_log as
\* they were.
C12_ForceCloseClosesAnyPosition ==
  /\ (last.op \in {"force_close", "force_close_none"} /\ WasOpen) =>
        /\ last.op = "force_close"
        /\ open_trade = NoTrade
        /\ ClosesPrevious
        /\ LastRecord.exit_reason = "Force Stop"
        /\ LastRecord.profit_inr = Round2(ExpectedProfit * BTC_USDT_RATE)
        /\ balance = last.pre_balance + ExpectedProfit * BTC_USDT_RATE
        /\ Len(order_log) = last.pre_log + 1
        /\ LastLog.action = "FORCE_CLOSE"
        /\ LastLog.price = last.price
        /\ LastLog.quantity = last.pre_open.amount
        /\ LastLog.pl_inr = LastRecord.profit_inr
  /\ (last.op \in {"force_close", "force_close_none"} /\ ~WasOpen) =>
        /\ last.op = "force_close_none"
        /\ open_trade = NoTrade
        /\ balance = last.pre_balance
        /\ HistoryKept
        /\ Len(order_log) = last.pre_log
\* C12 witness: a force close at a profit while the emergency stop denies
\* every admission
C12_Witness ==
  /\ last.op = "force_close" /\ WasOpen
  /\ risk_config.emergency_stop
  /\ LastLog.action = "FORCE_CLOSE" /\ LastLog.pl_inr > 0

\* the reasons a history record can carry
ExitReasons ==
  {"Stop-Loss Hit", "TP1 Hit - Full Exit", "Opposite Signal", "Force Stop"}
\* the step appended to history exactly the full-size close of the position
\* that was open before it
AppendsCloseOfOpen ==
  /\ open_trade # NoTrade
  /\ Len(history') = Len(history) + 1
  /\ SubSeq(history', 1, Len(history)) = history
  /\ history'[Len(history')].type = open_trade.type
  /\ history'[Len(history')].entry_price = open_trade.entry_price
  /\ history'[Len(history')].amount = open_trade.amount
  /\ history'[Len(history')].amount = open_trade.original_amount
  /\ ~history'[Len(history')].partial
  /\ history'[Len(history')].exit_reason \in ExitReasons
  /\ \E i \in DOMAIN last'.events : last'.events[i] \in CloseEvents

\* C13: a position leaves open_trade only through a stop-loss, take-profit,
\* opposite-signal or force close, in full: every step that takes open_trade
\* from a position to none or to another position appends exactly one history
\* record with the side, entry price and amount of that position, and history
\* grows in no other step.
C13_PositionLeavesOnlyByFullClose ==
  [][ /\ (open_trade # NoTrade /\ open_trade' # open_trade) =>
           AppendsCloseOfOpen
      /\ history' # history => AppendsCloseOfOpen ]_vars
\* C13 witness: a TP1 hit took the position away and left nothing open
C13_Witness ==
  /\ TickDone /\ WasOpen /\ open_trade = NoTrade /\ ClosesPrevious
  /\ LastRecord.exit_reason = "TP1 Hit - Full Exit"
  /\ LastRecord.amount = last.pre_open.original_amount

\* C14: the log entry of every tick that closed a position (stop-loss, TP1 or
\* opposite signal, whether or not the tick went on to open) has a close-type
\* action tag and carries the realized profit of that close.
C14_CloseTicksLoggedAsClose ==
  (TickDone /\ ClosedSomething /\ GrewByOne) =>
     /\ LastLog.action \in
          {"STOP_LOSS", "TP1_FULL_EXIT", "CLOSE_LONG", "CLOSE_SHORT"}
     /\ LastLog.pl_inr = LastRecord.profit_inr

\* ====================================== risk_manager.py called on its own
\* The admission and bookkeeping functions of risk_manager.py, called in any
\* order on the risk state file, under configurations that make each check
\* of can_open_trade the first one to fail.
MaxRiskSteps == 4

\* check k (1 daily loss, 2 daily trades, 3 consecutive losses, 4 emergency
\* stop, 5 minimum balance, 6 drawdown) and all later ones are set to deny
\* as soon as they can; the earlier ones keep their default
StrictFrom(k) ==
  [DEFAULT_RISK_CONFIG EXCEPT
     !.max_daily_loss = IF k <= 1 THEN 1 ELSE @,
     !.max_daily_trades = IF k <= 2 THEN 1 ELSE @,
     !.max_consecutive_losses = IF k <= 3 THEN 1 ELSE @,
     !.emergency_stop = (k <= 4),
     !.min_balance = IF k <= 5 THEN START_BALANCE ELSE @,
     !.max_drawdown_percentage = IF k <= 6 THEN 0 ELSE @,
     !.reset_hour = 12]
AdmissionConfigs ==
  { StrictFrom(k) : k \in 1..7 }
    \cup { [StrictFrom(1) EXCEPT !.limits_enabled = FALSE],
           [TightLimitsConfig EXCEPT !.limits_enabled = FALSE],
           DEFAULT_RISK_CONFIG, TightLimitsConfig }

\* profit_inr of a close: a loss of 2 INR, nothing, a gain of 0.05 INR
TradeResults == {0 - 2 * Scale, 0, 5 * Cent}
RiskHours == {6, 12, 18}
RiskClock == [date : Dates, hour : RiskHours]

\* what a call on risk_manager.py leaves in `last`
LastRiskCall(op, p, allowed, reason) ==
  [ op |-> op, stored |-> risk_file,
    loaded |-> load_risk_state(risk_file, risk_config, now),
    balance |-> balance, p |-> p, allowed |-> allowed, reason |-> reason ]

RiskInit ==
  /\ balance = 0
  /\ open_trade = NoTrade
  /\ history = << >>
  /\ order_log = << >>
  /\ last_signal = "None"
  /\ risk_config \in AdmissionConfigs
  /\ risk_file = NoFile
  /\ now = [date |-> 0, hour |-> 6]
  /\ steps = 0
  /\ last = [ op |-> "init", stored |-> NoFile, loaded |-> NoFile,
              balance |-> 0, p |-> None, allowed |-> FALSE,
              reason |-> "not_run" ]

\* can_open_trade(balance), given its result
AdmissionResult(trade_check) ==
  /\ risk_file' = trade_check.file
  /\ last' = LastRiskCall("can_open_trade", None, trade_check.allowed,
                          trade_check.reason)

\* can_open_trade(data["balance"]) as update_demo_trade calls it
AdmissionCall ==
  /\ steps < MaxRiskSteps
  /\ steps' = steps + 1
  /\ AdmissionResult(can_open_trade(balance, risk_file, risk_config, now))
  /\ UNCHANGED << balance, open_trade, history, order_log, last_signal,
                  risk_config, now >>

\* close_full_position lines 110-113: the balance moves by the profit and
\* record_trade_result(profit_inr) books it
TradeResultCall(p) ==
  /\ steps < MaxRiskSteps
  /\ steps' = steps + 1
  /\ balance' = balance + p
  /\ risk_file' = record_trade_result(p, risk_file, risk_config, now)
  /\ last' = LastRiskCall("record_trade_result", p, FALSE, "not_run")
  /\ UNCHANGED << open_trade, history, order_log, last_signal, risk_config,
                  now >>

\* get_risk_status: loads the risk state (and resets it when a reset is due)
get_risk_status ==
  /\ steps < MaxRiskSteps
  /\ steps' = steps + 1
  /\ risk_file' = load_risk_state(risk_file, risk_config, now)
  /\ last' = LastRiskCall("load_risk_state", None, FALSE, "not_run")
  /\ UNCHANGED << balance, open_trade, history, order_log, last_signal,
                  risk_config, now >>

\* the wall clock moves on between calls
RiskClockStep(t) ==
  /\ steps < MaxRiskSteps
  /\ steps' = steps + 1
  /\ Later(now, t)
  /\ now' = t
  /\ last' = [LastRiskCall("clock", None, FALSE, "not_run")
                EXCEPT !.loaded = risk_file]
  /\ UNCHANGED << balance, open_trade, history, order_log, last_signal,
                  risk_config, risk_file >>

RecordResult == \E p \in TradeResults : TradeResultCall(p)
RiskClockMoves == \E t \in RiskClock : RiskClockStep(t)
RiskNext == AdmissionCall \/ RecordResult \/ get_risk_status \/ RiskClockMoves
SpecRisk == RiskInit /\ [][RiskNext]_vars

\* ------------------------------------------------- claims on risk_manager
AdmissionRan == last.op = "can_open_trade"
AtTradeCap == last.loaded.daily_trades = risk_config.max_daily_trades

\* C15 (as stated): whenever can_open_trade runs on a risk state whose
\* daily_trades equals max_daily_trades, it returns not-allowed, whatever the
\* balance and the rest of the configuration.
C15_TradeCapAlwaysDenies ==
  (AdmissionRan /\ AtTradeCap) => ~last.allowed

\* C15 (amended): whenever can_open_trade runs with the daily limits enabled
\* on a risk state that, as loaded (after any reset that was due), has
\* daily_trades equal to max_daily_trades, it returns not-allowed, whatever
\* the balance and the rest of the configuration.
C15_TradeCapDeniesWhenEnabled ==
  (AdmissionRan /\ risk_config.limits_enabled /\ AtTradeCap) => ~last.allowed

\* the trade count alone denies an account that is above its start balance
C15_Witness ==
  /\ AdmissionRan
  /\ risk_config.limits_enabled
  /\ AtTradeCap
  /\ last.reason = "daily_trades"
  /\ ~risk_config.emergency_stop
  /\ last.balance > 0

\* the checks of can_open_trade, each on the risk state as loaded
DailyLossHit ==
  /\ risk_config.limits_enabled
  /\ last.loaded.daily_loss \div Scale >= risk_config.max_daily_loss
DailyTradesHit ==
  /\ risk_config.limits_enabled
  /\ last.loaded.daily_trades >= risk_config.max_daily_trades
LossStreakHit ==
  /\ risk_config.limits_enabled
  /\ last.loaded.consecutive_losses >= risk_config.max_consecutive_losses
BelowFloor == last.balance \div Scale < risk_config.min_balance - START_BALANCE
DrawdownFromPeakHit ==
  /\ last.loaded.peak_balance # AbsZero
  /\ DrawdownHit(last.balance, last.loaded.peak_balance, risk_config)
DailyReasons == {"daily_loss", "daily_trades", "consecutive_losses"}
FirstFailingCheck ==
  IF DailyLossHit THEN "daily_loss"
  ELSE IF DailyTradesHit THEN "daily_trades"
  ELSE IF LossStreakHit THEN "consecutive_losses"
  ELSE IF risk_config.emergency_stop THEN "emergency_stop"
  ELSE IF BelowFloor THEN "min_balance"
  ELSE IF DrawdownFromPeakHit THEN "drawdown"
  ELSE "ok"

\* C16: can_open_trade denies for the first failing check in the order daily
\* loss, daily trade count, consecutive losses, emergency stop, balance
\* below floor, drawdown from peak, and allows when none fails; on a denial
\* by a daily check the risk state is left as loaded, peak_balance included.
C16_FirstFailingCheckDecides ==
  AdmissionRan =>
    /\ last.reason = FirstFailingCheck
    /\ last.allowed = (FirstFailingCheck = "ok")
    /\ last.reason \in DailyReasons => risk_file = last.loaded

\* five checks fail at once and the daily loss, the first of them, is the one
\* reported
C16_Witness ==
  /\ AdmissionRan
  /\ DailyLossHit /\ DailyTradesHit /\ LossStreakHit
  /\ risk_config.emergency_stop /\ BelowFloor
  /\ last.reason = "daily_loss"
  /\ risk_file.peak_balance = AbsZero

ResultRecorded == last.op = "record_trade_result"

\* C17: record_trade_result(p) adds one to daily_trades for every p; for
\* p < 0 it adds |p| to daily_loss and one to consecutive_losses and leaves
\* daily_profit alone; for p >= 0, zero included, it adds p to daily_profit,
\* sets consecutive_losses to 0 and leaves daily_loss alone (each relative to
\* the risk state the call loaded).
C17_RecordTradeResultBooks ==
  ResultRecorded =>
    /\ risk_file.daily_trades = last.loaded.daily_trades + 1
    /\ last.p < 0 =>
         /\ risk_file.daily_loss = last.loaded.daily_loss + Abs(last.p)
         /\ risk_file.consecutive_losses = last.loaded.consecutive_losses + 1
         /\ risk_file.daily_profit = last.loaded.daily_profit
    /\ last.p >= 0 =>
         /\ risk_file.daily_profit = last.loaded.daily_profit + last.p
         /\ risk_file.consecutive_losses = 0
         /\ risk_file.daily_loss = last.loaded.daily_loss

\* a result of exactly zero ends a losing streak and still counts as a trade
C17_Witness ==
  /\ ResultRecorded
  /\ last.p = 0
  /\ last.loaded.consecutive_losses > 0
  /\ last.loaded.daily_loss > 0
  /\ risk_file.consecutive_losses = 0
  /\ risk_file.daily_trades = last.loaded.daily_trades + 1

\* a step that called load_risk_state, directly or through can_open_trade or
\* record_trade_result; risk_file is then the stored state, last'.loaded the
\* state returned
Loads == last'.op \in {"can_open_trade", "record_trade_result", "load_risk_state"}
ResetDue ==
  \/ now.date > risk_file.last_reset.date
  \/ /\ now.date = risk_file.last_reset.date
     /\ now.hour >= risk_config.reset_hour
     /\ risk_file.last_reset.hour < risk_config.reset_hour
CountersZero(state) ==
  /\ state.daily_trades = 0
  /\ state.daily_loss = 0
  /\ state.daily_profit = 0
  /\ state.consecutive_losses = 0

C19_PeakSurvivesReset ==
  [][ (risk_file.exists /\ risk_file'.last_reset # risk_file.last_reset)
        => risk_file'.peak_balance = risk_file.peak_balance ]_vars

\* ============================================ update_trailing_stop applied
\* update_trailing_stop applied again and again to a position's stop, the
\* returned stop being taken as lines 177-180 of update_demo_trade take it.
MaxTrailSteps == 3

TrailStops == {10000, 10001}
TrailPrices == {9998, 10000, 10002, 10010}
TrailAtrs == {0, 1, 4}
TrailTypes == {"LONG", "SHORT"}
TrailConfigs ==
  {DEFAULT_RISK_CONFIG, [DEFAULT_RISK_CONFIG EXCEPT !.trailing_enabled = FALSE]}

\* a position whose breakeven_moved flag lets the trailing branch run
TrailedPosition(position_type, stop_loss) ==
  [PositionRecord(position_type, 10000, 0, COINS_PER_TRADE, stop_loss, << >>)
     EXCEPT !.breakeven_moved = TRUE]

TrailInit ==
  /\ balance = 0
  /\ now = [date |-> 0, hour |-> 6]
  /\ open_trade \in { TrailedPosition(t, s) : t \in TrailTypes, s \in TrailStops }
  /\ history = << >>
  /\ order_log = << >>
  /\ last_signal = "None"
  /\ risk_config \in TrailConfigs
  /\ risk_file = NoFile
  /\ steps = 0
  /\ last = [ op |-> "init", price |-> 0, atr |-> 0, stop_before |-> None,
              returned |-> None, action |-> "NONE" ]

\* lines 168-180 for one price: the call and what is done with its result
TrailResult(price, atr_value, new_stop) ==
  LET m == ApplyTrailing(TickStart("Hold", price), new_stop)
  IN  /\ open_trade' = m.open
      /\ last' = [ op |-> "trail", price |-> price, atr |-> atr_value,
                   stop_before |-> open_trade.stop_loss,
                   returned |-> new_stop, action |-> m.log.action ]

TrailCall(price, atr_value) ==
  /\ steps < MaxTrailSteps
  /\ steps' = steps + 1
  /\ TrailResult(price, atr_value,
       update_trailing_stop(price, open_trade.type, open_trade.stop_loss,
                            atr_value, risk_config))
  /\ UNCHANGED << balance, history, order_log, last_signal, risk_config,
                  risk_file, now >>

TrailNext == \E price \in TrailPrices, atr_value \in TrailAtrs : TrailCall(price, atr_value)
SpecTrail == TrailInit /\ [][TrailNext]_vars

\* ------------------------------------------------ claims on trailing stops
Trailed == last.op = "trail"

\* C20: update_trailing_stop returns a stop only when that stop tightens the
\* current one, strictly higher for a Long and strictly lower for a Short,
\* and returns none otherwise and when trailing is disabled.
C20_ReturnedStopIsTighter ==
  Trailed =>
    /\ ~risk_config.trailing_enabled => last.returned = None
    /\ (last.returned # None /\ open_trade.type = "LONG")
          => last.returned > last.stop_before
    /\ (last.returned # None /\ open_trade.type = "SHORT")
          => last.returned < last.stop_before

\* over any sequence of calls a Long's stop never goes down and a Short's
\* never up, and a call that returns none leaves the stop as it was
TrailingNeverLoosens ==
  [][ /\ open_trade.type = "LONG" => open_trade'.stop_loss >= open_trade.stop_loss
      /\ open_trade.type = "SHORT" => open_trade'.stop_loss <= open_trade.stop_loss
      /\ last'.returned = None => open_trade'.stop_loss = open_trade.stop_loss
    ]_vars

\* ================================= the stop and the targets of a new position
\* calculate_stop_loss and calculate_take_profit_levels applied to entry
\* prices, ATR values and indicator lines, under every stop-loss type and
\* several take-profit configurations.
EntryPrices == {10000, 10020}
EntryAtrs == {0, 100, 300}
EntryLines == {None, 0, 9600, 9900, 10200, 10500}
UnsortedTargetsConfig ==
  [DEFAULT_RISK_CONFIG EXCEPT !.long_tp_atr_multipliers = << 60, 30, 90 >>,
                              !.short_tp_atr_multipliers = << 40, 20, 60 >>]
LevelConfigs ==
  { [DEFAULT_RISK_CONFIG EXCEPT !.sl_type = t] :
      t \in {"hybrid", "atr", "percentage", "utbot", "other"} }
    \cup { NoStopLossConfig, UnsortedTargetsConfig,
           [DEFAULT_RISK_CONFIG EXCEPT !.side_rules_enabled = FALSE],
           [DEFAULT_RISK_CONFIG EXCEPT !.tp_enabled = FALSE] }

LevelsInit ==
  /\ balance = 0
  /\ open_trade = NoTrade
  /\ history = << >>
  /\ order_log = << >>
  /\ last_signal = "None"
  /\ risk_config \in LevelConfigs
  /\ risk_file = NoFile
  /\ now = [date |-> 0, hour |-> 6]
  /\ steps = 0
  /\ last = [ op |-> "init", entry_price |-> 0, position_type |-> "NONE",
              atr |-> 0, utbot_stop |-> None, stop_loss |-> None,
              tp_levels |-> << >> ]

\* stop_loss_price = calculate_stop_loss(price, type, atr_value, utbot_stop,
\* config) (lines 208 and 253)
StopLossCall(entry_price, position_type, atr_value, utbot_stop) ==
  /\ last' = [ op |-> "calculate_stop_loss", entry_price |-> entry_price,
               position_type |-> position_type, atr |-> atr_value,
               utbot_stop |-> utbot_stop,
               stop_loss |-> calculate_stop_loss(entry_price, position_type,
                               atr_value, utbot_stop, risk_config),
               tp_levels |-> << >> ]
  /\ UNCHANGED << balance, open_trade, history, order_log, last_signal,
                  risk_config, risk_file, now, steps >>

\* tp_levels = calculate_take_profit_levels(price, type, atr_value, config)
\* (lines 209 and 254)
TakeProfitCall(entry_price, position_type, atr_value) ==
  /\ last' = [ op |-> "calculate_take_profit_levels",
               entry_price |-> entry_price, position_type |-> position_type,
               atr |-> atr_value, utbot_stop |-> None, stop_loss |-> None,
               tp_levels |-> calculate_take_profit_levels(entry_price,
                               position_type, atr_value, risk_config) ]
  /\ UNCHANGED << balance, open_trade, history, order_log, last_signal,
                  risk_config, risk_file, now, steps >>

StopLossCalls == \E e \in EntryPrices, t \in TrailTypes, a \in EntryAtrs, u \in EntryLines : StopLossCall(e, t, a, u)
TakeProfitCalls == \E e \in EntryPrices, t \in TrailTypes, a \in EntryAtrs : TakeProfitCall(e, t, a)
LevelsNext == StopLossCalls \/ TakeProfitCalls
SpecLevels == LevelsInit /\ [][LevelsNext]_vars

\* ------------------------------------------- claims on stops and targets
HybridStop ==
  /\ last.op = "calculate_stop_loss"
  /\ risk_config.sl_enabled
  /\ risk_config.sl_type = "hybrid"
\* the inputs of the last call, in 1/1000 cent, and rounded to cents
AtrStop == SlAtr(last.entry_price, last.position_type, last.atr, risk_config)
FixedStop == SlFixed(last.entry_price, last.position_type, risk_config)
ToCents(x) == RoundHalfEven(x, 1000) \div 1000
LinePresent == last.utbot_stop # None /\ last.utbot_stop # 0
\* a is at least as tight a stop as b for the side of the last call
AsTight(a, b) == IF last.position_type = "LONG" THEN a >= b ELSE a <= b

TargetsReturned == last.op = "calculate_take_profit_levels"
\* how far a level lies from the entry price
Distance(level) == Abs(level.price - last.entry_price)

\* C22: calculate_take_profit_levels returns its levels in ascending distance
\* from the entry price under every configuration, so the first level, the
\* one stored as tp1_price, is the nearest to the entry.
C22_TargetsAscending ==
  TargetsReturned =>
    \A i \in 1..Len(last.tp_levels) : \A j \in i..Len(last.tp_levels) :
      Distance(last.tp_levels[i]) <= Distance(last.tp_levels[j])

\* -------------------------------------------- claims on the open position
\* C23: while a position stays open over a step in which nothing is closed,
\* its side, entry price, size, TP1 price, opening time and every other field
\* but stop_loss and breakeven_moved keep the values set at open.
C23_OpenPositionFrame ==
  [][ (open_trade # NoTrade /\ open_trade' # NoTrade /\ history' = history)
        => [open_trade' EXCEPT !.stop_loss = open_trade.stop_loss,
                               !.breakeven_moved = open_trade.breakeven_moved]
             = open_trade ]_vars

\* a repeated Buy at another price, at a later hour, leaves the Long as
\* opened
C23_Witness ==
  /\ TickDone
  /\ last.signal = "Buy"
  /\ WasOpen
  /\ open_trade # NoTrade
  /\ open_trade.type = "LONG"
  /\ HistoryKept
  /\ last.price # open_trade.entry_price
  /\ open_trade.opened_at # now
  /\ open_trade = last.pre_open

\* ===================================================== utbot_logic.py
\* calc_utbot and get_utbot_signal applied to candle windows that grow by
\* one candle at a time. Prices are whole dollars; a float NaN (the rolling
\* mean before atr_period candles exist, and what is computed from it) is
\* the value NaN, which every comparison answers with false.
MaxCandles == 5
\* atr_period of the slow run: 300 in get_utbot_signal for windows of 350
\* candles, scaled to the windows explored here
SlowAtrPeriod == 3

NaN == 0 - 999999997
Gt(a, b) == a # NaN /\ b # NaN /\ a > b
Lt(a, b) == a # NaN /\ b # NaN /\ a < b
Minus(a, b) == IF a = NaN \/ b = NaN THEN NaN ELSE a - b
Plus(a, b) == IF a = NaN \/ b = NaN THEN NaN ELSE a + b
\* Python's max(a, b) and min(a, b): the first argument unless the second
\* compares greater (smaller)
PyMax(a, b) == IF Gt(b, a) THEN b ELSE a
PyMin(a, b) == IF Lt(b, a) THEN b ELSE a

Closes == {96, 104, 112}
Ranges == {0, 6}
Candles == { [close |-> c, high |-> c + r, low |-> c] : c \in Closes, r \in Ranges }

\* df["tr"].rolling(atr_period).mean() at row i, times keyvalue (nLoss)
RECURSIVE SumTr(_, _, _)
SumTr(df, from, to) ==
  IF from > to THEN 0
  ELSE (df[to].high - df[to].low) + SumTr(df, from, to - 1)
nLoss(df, keyvalue, atr_period, i) ==
  IF i < atr_period THEN NaN
  ELSE (keyvalue * SumTr(df, i - atr_period + 1, i)) \div atr_period

\* variant of utbot_bar whose long and short modes do not keep the previous
\* stop
utbot_bar_untrailed(prev_stop, prev_pos, src, src1, n_loss) ==
  [ stop |-> IF Gt(src, prev_stop) THEN Minus(src, n_loss)
             ELSE Plus(src, n_loss),
    pos |-> IF Lt(src1, prev_stop) /\ Gt(src, prev_stop) THEN 1
            ELSE IF Gt(src1, prev_stop) /\ Lt(src, prev_stop) THEN 0 - 1
            ELSE prev_pos ]

\* variant of utbot_bar in which touching the previous stop counts as a
\* crossing
utbot_bar_touch_crosses(prev_stop, prev_pos, src, src1, n_loss) ==
  [ stop |-> IF Gt(src, prev_stop) /\ Gt(src1, prev_stop)
             THEN PyMax(prev_stop, Minus(src, n_loss))
             ELSE IF Lt(src, prev_stop) /\ Lt(src1, prev_stop)
             THEN PyMin(prev_stop, Plus(src, n_loss))
             ELSE IF Gt(src, prev_stop) THEN Minus(src, n_loss)
             ELSE Plus(src, n_loss),
    pos |-> IF ~Gt(src1, prev_stop) /\ Gt(src, prev_stop) THEN 1
            ELSE IF ~Lt(src1, prev_stop) /\ Lt(src, prev_stop) THEN 0 - 1
            ELSE prev_pos ]

\* one pass of the loop of calc_utbot (lines 174-198): the stop and the
\* position of a bar
utbot_bar(prev_stop, prev_pos, src, src1, n_loss) ==
  [ stop |-> IF Gt(src, prev_stop) /\ Gt(src1, prev_stop)
             THEN PyMax(prev_stop, Minus(src, n_loss))
             ELSE IF Lt(src, prev_stop) /\ Lt(src1, prev_stop)
             THEN PyMin(prev_stop, Plus(src, n_loss))
             ELSE IF Gt(src, prev_stop) THEN Minus(src, n_loss)
             ELSE Plus(src, n_loss),
    pos |-> IF Lt(src1, prev_stop) /\ Gt(src, prev_stop) THEN 1
            ELSE IF Gt(src1, prev_stop) /\ Lt(src, prev_stop) THEN 0 - 1
            ELSE prev_pos ]

\* the columns stop and pos that calc_utbot adds, for the first n rows
RECURSIVE UtbotRows(_, _, _, _)
UtbotRows(df, keyvalue, atr_period, n) ==
  IF n = 1 THEN << [stop |-> df[1].close, pos |-> 0] >>
  ELSE LET rows == UtbotRows(df, keyvalue, atr_period, n - 1)
       IN  Append(rows,
                  utbot_bar(rows[n - 1].stop, rows[n - 1].pos, df[n].close,
                            df[n - 1].close, nLoss(df, keyvalue, atr_period, n)))

calc_utbot(df, keyvalue, atr_period) ==
  IF df = << >> THEN << >> ELSE UtbotRows(df, keyvalue, atr_period, Len(df))

\* calculate_atr_stable: None while no rolling mean exists, else the last one
calculate_atr_stable(df, period) ==
  IF Len(df) < period THEN None ELSE SumTr(df, Len(df) - period + 1, Len(df)) \div period

\* variant of SignalOf in which the slow run's Buy has the last word
SignalOfBuyLast(latest_price, signal1, signal2, stop1, stop2, atr_stable) ==
  [ signal |-> IF signal2 = 1 THEN "Buy" ELSE IF signal1 = 0 - 1 THEN "Sell" ELSE "Hold",
    price |-> latest_price,
    atr |-> IF atr_stable = None THEN 0 ELSE atr_stable,
    utbot_stop |-> IF signal2 = 1 THEN stop2
                   ELSE IF signal1 = 0 - 1 THEN stop1 ELSE latest_price ]

\* lines 241-259 of get_utbot_signal: the result built from the two runs
SignalOf(latest_price, signal1, signal2, stop1, stop2, atr_stable) ==
  [ signal |-> IF signal1 = 0 - 1 THEN "Sell" ELSE IF signal2 = 1 THEN "Buy" ELSE "Hold",
    price |-> latest_price,
    atr |-> IF atr_stable = None THEN 0 ELSE atr_stable,
    utbot_stop |-> IF signal1 = 0 - 1 THEN stop1
                   ELSE IF signal2 = 1 THEN stop2 ELSE latest_price ]

\* get_utbot_signal on a fetched window df
get_utbot_signal(df) ==
  IF df = << >> THEN NoData
  ELSE LET df1 == calc_utbot(df, 2, 1)
           df2 == calc_utbot(df, 2, SlowAtrPeriod)
       IN  SignalOf(df[Len(df)].close, df1[Len(df)].pos, df2[Len(df)].pos,
                    df1[Len(df)].stop, df2[Len(df)].stop,
                    calculate_atr_stable(df, 14))

UtbotInit ==
  /\ balance = 0
  /\ open_trade = NoTrade
  /\ history = << >>
  /\ order_log = << >>
  /\ last_signal = "None"
  /\ risk_config = DEFAULT_RISK_CONFIG
  /\ risk_file = NoFile
  /\ now = [date |-> 0, hour |-> 6]
  /\ steps = 0
  /\ last = [ op |-> "init", df |-> << >>, result |-> NoData ]

\* the market closes one more candle; the next fetch returns the longer window
NewCandle(candle) ==
  /\ Len(last.df) < MaxCandles
  /\ last' = [ op |-> "candle", df |-> Append(last.df, candle),
               result |-> NoData ]
  /\ UNCHANGED << balance, open_trade, history, order_log, last_signal,
                  risk_config, risk_file, now, steps >>

\* get_utbot_signal() on the window as it is now
SignalCall ==
  /\ last' = [ op |-> "get_utbot_signal", df |-> last.df,
               result |-> get_utbot_signal(last.df) ]
  /\ UNCHANGED << balance, open_trade, history, order_log, last_signal,
                  risk_config, risk_file, now, steps >>

CandleCloses == \E candle \in Candles : NewCandle(candle)
UtbotNext == CandleCloses \/ SignalCall
SpecUtbot == UtbotInit /\ [][UtbotNext]_vars

\* ------------------------------------------------- claims on utbot_logic
\* the two runs get_utbot_signal makes on the window
Fast == calc_utbot(last.df, 2, 1)
Slow == calc_utbot(last.df, 2, SlowAtrPeriod)
Bars == 2..Len(last.df)
BothAbove(rows, i) ==
  /\ Gt(last.df[i].close, rows[i - 1].stop)
  /\ Gt(last.df[i - 1].close, rows[i - 1].stop)
BothBelow(rows, i) ==
  /\ Lt(last.df[i].close, rows[i - 1].stop)
  /\ Lt(last.df[i - 1].close, rows[i - 1].stop)
StopsTrail(rows) ==
  \A i \in Bars :
    /\ BothAbove(rows, i) => ~Lt(rows[i].stop, rows[i - 1].stop) /\ rows[i].stop # NaN
    /\ BothBelow(rows, i) => ~Gt(rows[i].stop, rows[i - 1].stop) /\ rows[i].stop # NaN

\* C24: in calc_utbot, for every bar after the first whose close and previous
\* close are both above the previous stop the stop is >= the previous stop,
\* and for every bar whose two closes are both below it the stop is <= the
\* previous stop.
C24_StopTrailsMonotonically == StopsTrail(Fast) /\ StopsTrail(Slow)

\* a bar in long mode whose own candidate stop lies below the previous stop
\* keeps the previous stop
C24_Witness ==
  \E i \in Bars :
    /\ BothAbove(Fast, i)
    /\ last.df[i].close - nLoss(last.df, 2, 1, i) < Fast[i - 1].stop
    /\ Fast[i].stop = Fast[i - 1].stop
    /\ \E j \in Bars : BothBelow(Fast, j) /\ Fast[j].stop < Fast[j - 1].stop

LatestBar == Len(last.df)
SignalReturned == last.op = "get_utbot_signal" /\ last.df # << >>
SlowEndsLong == Slow[LatestBar].pos = 1
FastEndsShort == Fast[LatestBar].pos = 0 - 1

\* C25: on every window where the slow run ends Long and the fast run ends
\* Short, get_utbot_signal returns Sell with the fast run's latest stop; it
\* returns Buy (with the slow run's latest stop) only when the slow run ends
\* Long and the fast run does not end Short; when neither holds it returns
\* Hold with the latest close as stop line.
C25_SellOverridesBuy ==
  SignalReturned =>
    /\ FastEndsShort =>
         /\ last.result.signal = "Sell"
         /\ last.result.utbot_stop = Fast[LatestBar].stop
    /\ last.result.signal = "Buy" <=> (SlowEndsLong /\ ~FastEndsShort)
    /\ last.result.signal = "Buy" => last.result.utbot_stop = Slow[LatestBar].stop
    /\ (~SlowEndsLong /\ ~FastEndsShort) =>
         /\ last.result.signal = "Hold"
         /\ last.result.utbot_stop = last.df[LatestBar].close
    /\ last.result.price = last.df[LatestBar].close

\* the slow run ends Long, the fast run ends Short, and the stops differ
C25_Witness ==
  /\ SignalReturned
  /\ SlowEndsLong
  /\ FastEndsShort
  /\ last.result.signal = "Sell"
  /\ Fast[LatestBar].stop # Slow[LatestBar].stop
  /\ last.result.utbot_stop = Fast[LatestBar].stop

CrossesUp(rows, i) ==
  /\ Lt(last.df[i - 1].close, rows[i - 1].stop)
  /\ Gt(last.df[i].close, rows[i - 1].stop)
CrossesDown(rows, i) ==
  /\ Gt(last.df[i - 1].close, rows[i - 1].stop)
  /\ Lt(last.df[i].close, rows[i - 1].stop)
RegimeFollowsCrossings(rows) ==
  /\ rows # << >> => rows[1].pos = 0
  /\ \A i \in Bars :
       /\ rows[i].pos = 1 <=> (CrossesUp(rows, i) \/ (~CrossesDown(rows, i) /\ rows[i - 1].pos = 1))
       /\ rows[i].pos = 0 - 1 <=> (CrossesDown(rows, i) \/ (~CrossesUp(rows, i) /\ rows[i - 1].pos = 0 - 1))
       /\ rows[i - 1].pos # 0 => rows[i].pos # 0

\* C26: in calc_utbot the regime is 0 (Flat) at the first bar; it becomes
\* Long exactly on a bar whose previous close is below and whose close is
\* above the previous stop, Short in the mirrored case, and otherwise, closes
\* equal to the stop included, it is the previous bar's regime; once it has
\* left Flat it is never Flat again.
C26_RegimeFollowsCrossings ==
  RegimeFollowsCrossings(Fast) /\ RegimeFollowsCrossings(Slow)

\* a close rises above a stop that the previous close only touched, and the
\* regime stays what it was; later a real crossing turns Long into Short
C26_Witness ==
  /\ \E i \in Bars :
       /\ last.df[i - 1].close = Fast[i - 1].stop
       /\ last.df[i].close > Fast[i - 1].stop
       /\ Fast[i].pos = Fast[i - 1].pos
  /\ \E j \in Bars : Fast[j - 1].pos = 1 /\ Fast[j].pos = 0 - 1

\* ============================================== overlapping ticks (threads)
\* update_demo_trade run by two request threads of the Flask server. A tick
\* reads the Trade Document once (load_trades, line 137) and writes it once
\* (save_trades, line 279) with no lock in between; what it computes in
\* memory is applied here at the moment of the save.
MaxRaceSteps == 6

Workers == {1, 2}
RaceInputs == [signal : Signals, price : Prices, atr : {300}, utbot_stop : {0}]
Idle == [pc |-> "idle"]

\* the Trade Document as load_trades returns it
TradeDocument ==
  [ balance |-> balance, open_trade |-> open_trade, history |-> history,
    order_log |-> order_log, last_signal |-> last_signal ]

RaceInit ==
  /\ balance = 0
  /\ open_trade = NoTrade
  /\ history = << >>
  /\ order_log = << >>
  /\ last_signal = "None"
  /\ risk_config = DEFAULT_RISK_CONFIG
  /\ risk_file = NoFile
  /\ now = [date |-> 0, hour |-> 6]
  /\ steps = 0
  /\ last = [ op |-> "init", who |-> 0, ticks |-> [w \in Workers |-> Idle],
              overlapped |-> FALSE, saved |-> 0, action |-> "NONE",
              stale |-> FALSE ]

\* lines 136-139: a thread enters update_demo_trade and loads the document
LoadTrades(w, r) ==
  /\ steps < MaxRaceSteps
  /\ steps' = steps + 1
  /\ last.ticks[w].pc = "idle"
  /\ last' = [last EXCEPT
       !.op = "load_trades", !.who = w,
       !.ticks = [@ EXCEPT ![w] = [pc |-> "loaded", input |-> r,
                                   data |-> TradeDocument]],
       !.overlapped = @ \/ \E v \in Workers : last.ticks[v].pc = "loaded"]
  /\ UNCHANGED << balance, open_trade, history, order_log, last_signal,
                  risk_config, risk_file, now >>

\* the in-memory state of the tick of thread w when it reaches line 277
RaceMemory(data, r) ==
  LET m == [TickStart(r.signal, r.price) EXCEPT
              !.balance = data.balance, !.history = data.history,
              !.open = data.open_trade, !.last_signal = data.last_signal]
  IN  SignalStage(ExitStage(m, r.price, r.atr, risk_config, now),
                  r.signal, r.price, r.atr, r.utbot_stop, risk_config, now)

\* variant of WriteDocument that appends the entry to the log on disk
WriteDocumentMergingLog(data, m) ==
  /\ balance' = m.balance
  /\ open_trade' = m.open
  /\ history' = m.history
  /\ order_log' = Append(order_log, m.log)
  /\ last_signal' = m.last_signal

\* lines 277-279: the entry is appended to the log the thread loaded and the
\* thread's copy of the document replaces the file
WriteDocument(data, m) ==
  /\ balance' = m.balance
  /\ open_trade' = m.open
  /\ history' = m.history
  /\ order_log' = Append(data.order_log, m.log)
  /\ last_signal' = m.last_signal

\* thread w finishes its tick with in-memory state m
FinishRacingTick(w, m) ==
  /\ risk_file' = m.file
  /\ IF m.failed
     THEN UNCHANGED << balance, open_trade, history, order_log, last_signal >>
     ELSE WriteDocument(last.ticks[w].data, m)
  /\ last' = [last EXCEPT
       !.op = IF m.failed THEN "tick_failed" ELSE "save_trades", !.who = w,
       !.ticks = [@ EXCEPT ![w] = Idle],
       !.saved = IF m.failed THEN @ ELSE @ + 1,
       !.action = m.log.action,
       !.stale = last.ticks[w].data # TradeDocument]

SaveTrades(w) ==
  /\ steps < MaxRaceSteps
  /\ steps' = steps + 1
  /\ last.ticks[w].pc = "loaded"
  /\ FinishRacingTick(w, RaceMemory(last.ticks[w].data, last.ticks[w].input))
  /\ UNCHANGED << risk_config, now >>

TickEnters == \E w \in Workers, r \in RaceInputs : LoadTrades(w, r)
TickSaves == \E w \in Workers : SaveTrades(w)
RaceNext == TickEnters \/ TickSaves
SpecRace == RaceInit /\ [][RaceNext]_vars

\* ------------------------------------------------ claims on overlapping ticks
Saving == last'.op = "save_trades"
\* the document the saving thread had loaded
LoadedBySaver == last.ticks[last'.who].data

\* C27: a save writes the log the thread loaded plus its own entry, whatever
\* was saved in between (last writer wins), so two overlapping ticks can both
\* complete while order_log gains one entry and the first tick's decision is
\* overwritten; a tick whose load and save have no other save in between
\* adds its entry to the log on disk, and a run without overlap has one entry
\* per completed tick.
C27_LastWriterWins ==
  [][ /\ Saving =>
           /\ Len(order_log') = Len(LoadedBySaver.order_log) + 1
           /\ SubSeq(order_log', 1, Len(LoadedBySaver.order_log))
                = LoadedBySaver.order_log
      /\ (Saving /\ LoadedBySaver = TradeDocument) =>
           /\ Len(order_log') = Len(order_log) + 1
           /\ SubSeq(order_log', 1, Len(order_log)) = order_log
      /\ ~last'.overlapped => Len(order_log') = last'.saved ]_vars

\* both ticks completed, the log holds one entry, and the Long that the first
\* tick opened is gone without a close
C27_Witness ==
  /\ last.op = "save_trades"
  /\ last.saved = 2
  /\ last.overlapped
  /\ last.stale
  /\ Len(order_log) = 1
  /\ order_log[1].action = "HOLD"
  /\ open_trade = NoTrade
  /\ history = << >>
  /\ risk_file.exists
  /\ risk_file.peak_balance = 0

\* ================================================ get_performance_summary
RECURSIVE SumProfitInr(_)
SumProfitInr(trades) ==
  IF trades = << >> THEN 0
  ELSE trades[Len(trades)].profit_inr + SumProfitInr(SubSeq(trades, 1, Len(trades) - 1))

\* get_performance_summary() on the persisted document; win_rate in 1/100
\* percent, amounts in 1e-8 INR, the balance fields as offsets from
\* START_BALANCE
get_performance_summary ==
  IF history = << >>
  THEN [ total_trades |-> 0, winning_trades |-> 0, losing_trades |-> 0,
         total_profit_inr |-> 0, win_rate |-> 0 ]
  ELSE LET total_trades == Len(history)
           winning_trades == Cardinality({ i \in DOMAIN history : history[i].profit_inr > 0 })
           losing_trades == Cardinality({ i \in DOMAIN history : history[i].profit_inr < 0 })
       IN  [ total_trades |-> total_trades,
             winning_trades |-> winning_trades,
             losing_trades |-> losing_trades,
             total_profit_inr |-> Round2(SumProfitInr(history)),
             win_rate |-> RoundHalfEven(winning_trades * 10000, total_trades) \div total_trades,
             current_balance |-> Round2(balance),
             starting_balance |-> START_BALANCE,
             total_return |-> Round2(balance) ]

SummaryFields ==
  { "total_trades", "winning_trades", "losing_trades", "total_profit_inr",
    "win_rate", "current_balance", "total_return" }

\* C28: in every state, an empty history included, get_performance_summary
\* returns total_trades, winning_trades, losing_trades, total_profit_inr,
\* win_rate, current_balance and total_return, and total_return is the
\* balance minus 10000.
C28_SummaryAlwaysComplete ==
  /\ SummaryFields \subseteq DOMAIN get_performance_summary
  /\ get_performance_summary.total_return = Round2(balance)

\* ------------------------------------------------- claims on failing ticks
\* C29: with take_profit.enabled or stop_loss.enabled false, a Buy or Sell
\* tick from Flat that clears admission completes: it opens the position
\* (with tp1_price, respectively stop_loss, none), appends its one log entry
\* and saves the document.
C29_OpensWithoutStopOrTarget ==
  ( /\ TickRan
    /\ last.signal \in {"Buy", "Sell"}
    /\ last.pre_open = NoTrade
    /\ last.admission = "ok"
    /\ (~risk_config.sl_enabled \/ ~risk_config.tp_enabled) )
  => /\ TickDone
     /\ open_trade # NoTrade
     /\ open_trade.type = SignalSide
     /\ Len(order_log) = last.pre_log + 1

\* C30: a tick that fails before save_trades leaves every persisted document
\* as it was before the tick; in particular the risk state counters
\* daily_trades, daily_loss and consecutive_losses are not advanced by a close
\* whose history record was not saved.
C30_FailedTickLeavesNoTrace ==
  [][ last'.op = "tick_failed" =>
        /\ UNCHANGED << balance, open_trade, history, order_log, last_signal >>
        /\ (risk_file.exists /\ risk_file'.last_reset = risk_file.last_reset) =>
             /\ risk_file'.daily_trades = risk_file.daily_trades
             /\ risk_file'.daily_loss = risk_file.daily_loss
             /\ risk_file'.consecutive_losses = risk_file.consecutive_losses
    ]_vars

\* ===================================================== bot.py: trading control
\* The trading state of trading_state.json and the routes that read and write
\* it. The state is kept in last.control; a missing file reads as the defaults
\* (load_trading_state writes them on first use).
MaxControlSteps == 4

DEFAULT_TRADING_HOURS ==
  [ enabled |-> TRUE, start_hour |-> 18, end_hour |-> 23,
    manual_pause |-> FALSE, force_start |-> FALSE ]

\* the bodies POST /trading-control update_hours is sent
HourSettings ==
  { [start_hour |-> 18, end_hour |-> 23, enabled |-> TRUE],
    [start_hour |-> 6, end_hour |-> 12, enabled |-> TRUE],
    [start_hour |-> 18, end_hour |-> 23, enabled |-> FALSE] }

\* what get_current_price returns: a price, or None when both sources fail
CurrentPrices == Prices \cup {None}

\* what get_utbot_signal hands to a poll
PollResults ==
  [signal : Signals, price : Prices, atr : {300}, utbot_stop : {0}]
    \cup {NoData}

\* is_within_trading_hours()
is_within_trading_hours(state, clock) ==
  IF state.force_start THEN TRUE
  ELSE IF ~state.enabled THEN TRUE
  ELSE state.start_hour <= clock.hour /\ clock.hour < state.end_hour

\* variant of is_trading_allowed that does not look at force_start
is_trading_allowed_by_hours_only(state, clock) ==
  IF state.manual_pause
  THEN [allowed |-> FALSE, reason |-> "Trading manually paused"]
  ELSE IF ~(state.enabled => (state.start_hour <= clock.hour
                               /\ clock.hour < state.end_hour))
  THEN [allowed |-> FALSE, reason |-> "Outside trading hours"]
  ELSE [allowed |-> TRUE, reason |-> "None"]

\* is_trading_allowed(): (allowed, reason)
is_trading_allowed(state, clock) ==
  IF state.force_start THEN [allowed |-> TRUE, reason |-> "None"]
  ELSE IF state.manual_pause
  THEN [allowed |-> FALSE, reason |-> "Trading manually paused"]
  ELSE IF ~is_within_trading_hours(state, clock)
  THEN [allowed |-> FALSE, reason |-> "Outside trading hours"]
  ELSE [allowed |-> TRUE, reason |-> "None"]

\* what a request leaves in `last`: the trading state file after it, and
\* what the request was given and found
ControlLast(op, state, branch, allowed, signal, price, events) ==
  [ op |-> op, control |-> state, branch |-> branch, allowed |-> allowed,
    signal |-> signal, price |-> price, events |-> events,
    pre_control |-> last.control, pre_open |-> open_trade,
    pre_balance |-> balance, pre_history |-> history,
    pre_log |-> order_log ]

ControlInit ==
  /\ balance = 0
  /\ open_trade = NoTrade
  /\ history = << >>
  /\ order_log = << >>
  /\ last_signal = "None"
  /\ risk_config = DEFAULT_RISK_CONFIG
  /\ risk_file = NoFile
  /\ now = [date |-> 0, hour |-> 18]
  /\ steps = 0
  /\ last = [ op |-> "init", control |-> DEFAULT_TRADING_HOURS,
              branch |-> "none", allowed |-> TRUE, signal |-> "None",
              price |-> 0, events |-> << >>,
              pre_control |-> DEFAULT_TRADING_HOURS, pre_open |-> NoTrade,
              pre_balance |-> 0, pre_history |-> << >>, pre_log |-> << >> ]

\* /signal lines 136-144: update_demo_trade saves its document, then
\* get_risk_status loads the risk state; a call that raised is answered by
\* the handler of line 172
PollTrades(m, allowed, signal, price) ==
  /\ IF m.failed
     THEN /\ risk_file' = m.file
          /\ UNCHANGED << balance, open_trade, history, order_log,
                          last_signal >>
     ELSE /\ risk_file' = load_risk_state(m.file, risk_config, now)
          /\ balance' = m.balance
          /\ open_trade' = m.open
          /\ history' = m.history
          /\ order_log' = Append(order_log, m.log)
          /\ last_signal' = m.last_signal
  /\ last' = ControlLast("poll", last.control,
                         IF m.failed THEN "tick_failed" ELSE "tick",
                         allowed, signal, price, m.events)

\* /signal lines 103-134: the answer of a poll while trading is not allowed
PollPaused(signal, price) ==
  /\ risk_file' = load_risk_state(risk_file, risk_config, now)
  /\ last' = ControlLast("poll", last.control, "paused", FALSE, signal,
                         price, << >>)
  /\ UNCHANGED << balance, open_trade, history, order_log, last_signal >>

\* variant of the /signal route that trades whether or not trading is allowed
signal_poll_always_trades(signal_generated, price, atr, utbot_stop) ==
  /\ steps < MaxControlSteps
  /\ steps' = steps + 1
  /\ UNCHANGED << risk_config, now >>
  /\ IF signal_generated = "No Data" \/ price = 0
     THEN /\ last' = ControlLast("poll", last.control, "no_data",
                       is_trading_allowed(last.control, now).allowed,
                       signal_generated, price, << >>)
          /\ UNCHANGED << balance, open_trade, history, order_log,
                          last_signal, risk_file >>
     ELSE PollTrades(TickMemory(signal_generated, price, atr, utbot_stop),
                     is_trading_allowed(last.control, now).allowed,
                     signal_generated, price)

\* GET /signal (bot.py lines 88-176)
signal_poll(signal_generated, price, atr, utbot_stop) ==
  /\ steps < MaxControlSteps
  /\ steps' = steps + 1
  /\ UNCHANGED << risk_config, now >>
  /\ IF signal_generated = "No Data" \/ price = 0
     THEN /\ last' = ControlLast("poll", last.control, "no_data",
                       is_trading_allowed(last.control, now).allowed,
                       signal_generated, price, << >>)
          /\ UNCHANGED << balance, open_trade, history, order_log,
                          last_signal, risk_file >>
     ELSE IF ~is_trading_allowed(last.control, now).allowed
     THEN PollPaused(signal_generated, price)
     ELSE PollTrades(TickMemory(signal_generated, price, atr, utbot_stop),
                     TRUE, signal_generated, price)

\* a POST /trading-control action that only rewrites the trading state
SaveTradingState(action, state) ==
  /\ steps < MaxControlSteps
  /\ steps' = steps + 1
  /\ last' = ControlLast(action, state, "none",
                         is_trading_allowed(state, now).allowed, "None", 0,
                         << >>)
  /\ UNCHANGED << balance, open_trade, history, order_log, last_signal,
                  risk_config, risk_file, now >>

\* action "pause"
pause ==
  SaveTradingState("pause", [last.control EXCEPT !.manual_pause = TRUE,
                                                 !.force_start = FALSE])

\* action "resume"
resume ==
  SaveTradingState("resume", [last.control EXCEPT !.manual_pause = FALSE,
                                                  !.force_start = FALSE])

\* action "force_start"
force_start ==
  SaveTradingState("force_start", [last.control EXCEPT !.manual_pause = FALSE,
                                                       !.force_start = TRUE])

\* action "update_hours"
update_hours(body) ==
  SaveTradingState("update_hours",
                   [last.control EXCEPT !.start_hour = body.start_hour,
                                        !.end_hour = body.end_hour,
                                        !.enabled = body.enabled])

\* action "force_stop": the position is closed through force_close_position
\* when get_current_price returned a price, then the trading state is reset
force_stop(current_price) ==
  /\ steps < MaxControlSteps
  /\ steps' = steps + 1
  /\ IF Truthy(current_price) /\ open_trade # NoTrade
     THEN LET c == close_full_position(
                     [balance |-> balance, history |-> history,
                      file |-> risk_file],
                     open_trade, current_price, "Force Stop", risk_config,
                     now)
          IN /\ balance' = c.balance
             /\ history' = c.history
             /\ risk_file' = c.file
             /\ open_trade' = NoTrade
             /\ order_log' = Append(order_log,
                  [ side |-> "CLOSE", price |-> current_price,
                    quantity |-> open_trade.amount, action |-> "FORCE_CLOSE",
                    pl_inr |-> c.record.profit_inr, stop_loss |-> None,
                    tp1 |-> None ])
     ELSE UNCHANGED << balance, open_trade, history, order_log, risk_file >>
  /\ last' = ControlLast("force_stop",
                         [last.control EXCEPT !.manual_pause = TRUE,
                                              !.force_start = FALSE],
                         "none", FALSE, "None", current_price,
                         IF Truthy(current_price) /\ open_trade # NoTrade
                         THEN << "FORCE_CLOSE" >> ELSE << >>)
  /\ UNCHANGED << last_signal, risk_config, now >>

\* the wall clock moves on between requests
ControlClockStep(t) ==
  /\ steps < MaxControlSteps
  /\ steps' = steps + 1
  /\ Later(now, t)
  /\ now' = t
  /\ last' = ControlLast("clock", last.control, "none",
                         is_trading_allowed(last.control, t).allowed, "None",
                         0, << >>)
  /\ UNCHANGED << balance, open_trade, history, order_log, last_signal,
                  risk_config, risk_file >>

Poll == \E r \in PollResults : signal_poll(r.signal, r.price, r.atr, r.utbot_stop)
UpdateHours == \E body \in HourSettings : update_hours(body)
ForceStop == \E price \in CurrentPrices : force_stop(price)
ControlClockMoves == \E t \in Clock : ControlClockStep(t)
ControlNext == Poll \/ pause \/ resume \/ force_start \/ UpdateHours \/ ForceStop \/ ControlClockMoves
SpecControl == ControlInit /\ [][ControlNext]_vars

\* ------------------------------------------------------------------ C31
PolledWhileNotAllowed == last.op = "poll" /\ ~last.allowed

\* C31: a /signal poll made while trading is not allowed (manual pause, or
\* outside the trading hours, force_start off) does not call
\* update_demo_trade: no log entry is appended, balance, history and the open
\* position are what they were, even when the polled price crosses the
\* position's stop-loss or TP1.
C31_PausedPollChangesNothing ==
  PolledWhileNotAllowed =>
    /\ ~last.control.force_start
    /\ last.branch \in {"paused", "no_data"}
    /\ order_log = last.pre_log
    /\ balance = last.pre_balance
    /\ history = last.pre_history
    /\ open_trade = last.pre_open

\* a paused poll at a price that crosses a level of the open position
C31_Witness ==
  /\ PolledWhileNotAllowed
  /\ last.branch = "paused"
  /\ open_trade # NoTrade
  /\ check_tp_sl_hits(open_trade, last.price) # "NONE"

\* ------------------------------------------------------------------ C32
\* C32: after the force_stop control action no position is open and the
\* trading state has manual_pause true and force_start false, whatever the
\* state before it, also when get_current_price returned no price.
C32_ForceStopLeavesNothingOpen ==
  last.op = "force_stop" =>
    /\ open_trade = NoTrade
    /\ last.control.manual_pause
    /\ ~last.control.force_start

\* ------------------------------------------------------------------ C33
OutsideHours(state, clock) ==
  state.enabled /\ ~(state.start_hour <= clock.hour /\ clock.hour < state.end_hour)

\* C33: from the default trading state, after any sequence of pause, resume,
\* force_start, force_stop and update_hours, manual_pause and force_start are
\* never both true; and while force_start is true is_trading_allowed answers
\* allowed at every hour, so a poll is handed to update_demo_trade.
C33_ForceStartOverridesHours ==
  /\ ~(last.control.manual_pause /\ last.control.force_start)
  /\ last.control.force_start =>
       /\ \A t \in Clock : is_trading_allowed(last.control, t).allowed
       /\ last.op = "poll" => last.allowed /\ last.branch # "paused"

\* force_start was set after a pause, and a poll outside the trading hours
\* went through to update_demo_trade
C33_Witness ==
  /\ last.control.force_start
  /\ last.op = "poll"
  /\ last.branch = "tick"
  /\ OutsideHours(last.control, now)
  /\ order_log # last.pre_log

\* ------------------------------------------------------------------ C34
\* a step that keeps the position it found: nothing was closed or opened
KeepsPosition ==
  /\ open_trade # NoTrade
  /\ open_trade' # NoTrade
  /\ \A i \in DOMAIN last'.events :
        last'.events[i] \notin CloseEvents \cup {"OPEN"}

\* C34: breakeven_moved is written only as false, when the position is
\* opened, so the trailing-stop branch never runs: an open position keeps its
\* stop_loss at every tick until it is closed, and no log entry is tagged
\* TRAILING_STOP_UPDATE.
C34_StopNeverMoves ==
  /\ [](open_trade # NoTrade => ~open_trade.breakeven_moved)
  /\ [](\A i \in DOMAIN order_log :
           order_log[i].action # "TRAILING_STOP_UPDATE")
  /\ [][KeepsPosition => open_trade'.stop_loss = open_trade.stop_loss]_vars

\* a completed tick that kept its position although trailing is enabled and
\* update_trailing_stop would have returned a tighter stop for it
C34_Witness ==
  /\ TickDone
  /\ WasOpen
  /\ open_trade = last.pre_open
  /\ risk_config.trailing_enabled
  /\ open_trade.stop_loss # None
  /\ \E a \in Atrs :
        Truthy(update_trailing_stop(last.price, open_trade.type,
                                    open_trade.stop_loss, a, risk_config))

\* ------------------------------------------------------------------ C35
\* each record starts from the balance the record before it ended with
RecordsChain ==
  \A i \in DOMAIN history :
     history[i].balance_before =
       IF i = 1 THEN 0 ELSE history[i - 1].balance_after

\* C35: after any sequence of ticks and force closes from the initial
\* document, the balance is 10000 plus the sum of the profit_inr of all
\* history records, and each record's balance_before is the balance_after of
\* the record before it (10000 for the first).
C35_BalanceIsSumOfRecords ==
  /\ balance = SumProfitInr(history)
  /\ RecordsChain

\* ------------------------------------------------------------------ C36
\* the trade count the step started from: the stored one, or zero when the
\* step reset the risk state (or created the file)
TradesCarried ==
  IF risk_file.exists /\ risk_file'.exists
     /\ risk_file'.last_reset = risk_file.last_reset
  THEN risk_file.daily_trades
  ELSE 0

\* C36: with one operation at a time and none of them failing, the risk
\* state and the document stay consistent: daily_trades is the number of
\* history records appended since the last daily reset, whichever way the
\* position was closed (stop-loss, TP1, opposite signal, force close). Every
\* operation that completes advances daily_trades by the number of records
\* it appends, counting from zero when it resets the daily state.
C36_TradesCountedOncePerRecord ==
  [][ last'.op # "tick_failed" =>
        IF risk_file'.exists
        THEN risk_file'.daily_trades =
               TradesCarried + (Len(history') - Len(history))
        ELSE history' = history /\ history = << >> ]_vars

\* a close that found a daily reset due: the reset and the count of the new
\* record were made by the same operation
C36_Witness ==
  /\ ClosedSomething
  /\ Len(history) = 1
  /\ risk_file.exists
  /\ risk_file.last_reset = now
  /\ now.date = 1
  /\ risk_file.daily_trades = 1

\* C36, overlapping part: two ticks that loaded the same open position both
\* closed it; the risk state counted two trades, the document holds one
\* record
C36_OverlapCountsTwice ==
  /\ last.op = "save_trades"
  /\ last.overlapped
  /\ risk_file.exists
  /\ risk_file.daily_trades = 2
  /\ Len(history) = 1

\* ------------------------------------------------------------------ C37
\* no daily limit of the configuration is reached by the stored risk state
WithinDailyLimits ==
  /\ risk_file.exists
  /\ risk_file.daily_loss \div Scale < risk_config.max_daily_loss
  /\ risk_file.daily_trades < risk_config.max_daily_trades
  /\ risk_file.consecutive_losses < risk_config.max_consecutive_losses

\* C37: when a tick writes a newly opened position the risk state is within
\* every daily limit (daily_loss, daily_trades, consecutive_losses below their
\* maxima), also in a flip tick, where the opposite-signal close is recorded
\* between the admission check and the open.
C37_NoOpenAtDailyLimit ==
  (TickDone /\ HasEvent("OPEN")) => WithinDailyLimits

\* ------------------------------------------------------------------ C38
\* C38: a tick that opens a position with a positive ATR stores a stop_loss
\* strictly below the entry price for a Long (strictly above for a Short),
\* whatever indicator stop line it was given, so that a Hold tick at the
\* entry price does not close the position with Stop-Loss Hit.
C38_StopBeyondEntry ==
  (TickDone /\ HasEvent("OPEN") /\ open_trade.atr_at_entry > 0) =>
     /\ IF open_trade.type = "LONG"
        THEN open_trade.stop_loss < open_trade.entry_price
        ELSE open_trade.stop_loss > open_trade.entry_price
     /\ check_tp_sl_hits(open_trade, open_trade.entry_price) # "SL"

====
